---- MODULE Spec2Model ----
(***************************************************************************)
(* Model of the query-construction engine of fightfor-graphql: the MeSH    *)
(* descriptor closure and the filters of the study/citation resolvers      *)
(* (ffgraphql/types/studies.py, citations.py, studies_stats.py) and the    *)
(* load-option planner (ffgraphql/utils.py).                               *)
(*                                                                         *)
(* A resolver is stateless: it reads the reference data and the tables,    *)
(* builds a query and returns.  One action models one resolver call; the   *)
(* call's arguments, its locals of interest and its outcome are kept in    *)
(* `req` and `resp` until the request is discarded (Discard).              *)
(***************************************************************************)
EXTENDS Integers, Sequences, FiniteSets, TLC

VARIABLES
    tree_numbers,   \* mesh.tree_numbers: descriptor id -> set of tree numbers
    pc,             \* "idle" | "done"
    op,             \* name of the resolver that produced `resp`
    req,            \* arguments of the call
    resp,           \* locals and outcome of the call
    db              \* the application tables: users, searches and links

vars == <<tree_numbers, pc, op, req, resp, db>>

-----------------------------------------------------------------------------
(* Python values.                                                          *)

\* An Optional[...] argument or a nullable column: None/NULL is <<>>, a value
\* v is <<v>>.
None == <<>>

Some(v) == <<v>>

\* Python truthiness of an Optional[int] / Optional[float]: None and 0 are
\* falsy.
TruthyNum(x) == x # None /\ x[1] # 0

\* Python truthiness of an Optional[List]: None and [] are falsy.
TruthyList(x) == x # None /\ x[1] # {}

\* Python truthiness of an Optional[str] / Optional[Enum].
TruthyStr(x) == x # None /\ x[1] # ""

Max(a, b) == IF a >= b THEN a ELSE b

Min(a, b) == IF a <= b THEN a ELSE b

-----------------------------------------------------------------------------
(* Bounds of the model.                                                    *)

\* Largest age, in years, a caller supplies or a study row carries.
MaxAge == 3

\* Number of rows of the studies table.
NumStudies == 44

\* Number of rows of the citations table.
NumCitations == 16

\* Largest distance_max_km a caller supplies.
MaxKm == 2

\* Largest offset or limit a caller supplies.
MaxPage == 2

\* The longest selection set of a query.
MaxSelections == 3

-----------------------------------------------------------------------------
(* MeSH reference data: descriptors and their tree numbers.  A tree number *)
(* is a string; it is modelled as the sequence of its characters so that   *)
(* str.startswith and LIKE 'tn%' work on characters, as in the code.       *)

NumDescriptors == 4

Descriptors == 1..NumDescriptors

TN_C04 == <<"C", "0", "4">>

TN_C04_100 == <<"C", "0", "4", ".", "1", "0", "0">>

TN_C041_200 == <<"C", "0", "4", "1", ".", "2", "0", "0">>

TN_E01 == <<"E", "0", "1">>

TN_E01_200 == <<"E", "0", "1", ".", "2", "0", "0">>

\* The contents the reference tables may have.  Descriptor 1 is the root
\* 'C04' and descriptor 2 its child 'C04.100'; descriptor 3 is either the
\* look-alike 'C041.200', a polyhierarchical node under both 'C04.100' and
\* 'E01', or a node of the other tree only; descriptor 4 either has no tree
\* number at all or is the root 'E01'.
Taxonomies ==
    { [d \in Descriptors |->
          CASE d = 1 -> {TN_C04}
            [] d = 2 -> {TN_C04_100}
            [] d = 3 -> t3
            [] OTHER -> t4]
      : t3 \in { {TN_C041_200}, {TN_C04_100, TN_E01_200}, {TN_E01_200} },
        t4 \in { {}, {TN_E01} } }

-----------------------------------------------------------------------------
(* The closure of the supplied descriptors (resolve_search, first half).   *)

\* str.startswith(prefix).
StartsWith(s, prefix) ==
    /\ Len(prefix) <= Len(s)
    /\ SubSeq(s, 1, Len(prefix)) = prefix

\* column LIKE '<tn>%'.  A tree number holds letters, digits and dots only,
\* none of them a LIKE wildcard, so the pattern matches the strings that
\* begin with tn.
Like(s, tn) ==
    /\ Len(tn) <= Len(s)
    /\ \A i \in 1..Len(tn) : s[i] = tn[i]

\* The rows of mesh.descriptor_tree_numbers joined to mesh.tree_numbers, as
\* (descriptor_id, tree_number) pairs.
DescriptorTreeNumbers ==
    { row \in Descriptors \X UNION {tree_numbers[x] : x \in Descriptors} :
        row[2] \in tree_numbers[row[1]] }

\* query_tns.all(): the (tree_number, descriptor_id) rows of the supplied
\* descriptors.
QueryTns(mesh_descriptor_ids) ==
    { <<row[2], row[1]>> :
        row \in { r \in DescriptorTreeNumbers : r[1] \in mesh_descriptor_ids } }

\* map_descriptor_tns: only a descriptor with a row gets a key (setdefault).
MapDescriptorTns(mesh_descriptor_ids) ==
    LET rows == QueryTns(mesh_descriptor_ids)
    IN  [d \in {row[2] : row \in rows} |->
            {row[1] : row \in {r \in rows : r[2] = d}}]

\* tree_numbers_all after list(set(...)).
TreeNumbersAll(mesh_descriptor_ids) ==
    {row[1] : row \in QueryTns(mesh_descriptor_ids)}

\* query_descs.all(): the (descriptor_id, tree_number) rows whose tree number
\* is LIKE ANY of the patterns '<tn>%'.
QueryDescs(tree_numbers_all) ==
    { row \in DescriptorTreeNumbers :
        \E tn \in tree_numbers_all : Like(row[2], tn) }

\* A loop that tests a row against the tree numbers of every supplied
\* descriptor, whichever descriptor it appends under.
ChildrenOfAnyRoot(descriptor_id, map_descriptor_tns, rows) ==
    { row[1] : row \in { r \in rows :
        \E d \in DOMAIN map_descriptor_tns :
            \E tree_number_prefix \in map_descriptor_tns[d] :
                StartsWith(r[2], tree_number_prefix) } }

\* The descriptors appended under descriptor_id by the triple loop.
ChildrenOf(descriptor_id, map_descriptor_tns, rows) ==
    { row[1] : row \in { r \in rows :
        \E tree_number_prefix \in map_descriptor_tns[descriptor_id] :
            StartsWith(r[2], tree_number_prefix) } }

\* map_descriptor_children once the lists were made unique: a key exists only
\* for a descriptor under which the loop appended something, and its list
\* starts as [descriptor_id].
MapDescriptorChildren(mesh_descriptor_ids) ==
    LET map_descriptor_tns == MapDescriptorTns(mesh_descriptor_ids)
        rows == QueryDescs(TreeNumbersAll(mesh_descriptor_ids))
    IN  [d \in { k \in DOMAIN map_descriptor_tns :
                    ChildrenOf(k, map_descriptor_tns, rows) # {} } |->
            {d} \cup ChildrenOf(d, map_descriptor_tns, rows)]

\* map_descriptor_children of the else branch (do_include_children false).
MapDescriptorSelf(mesh_descriptor_ids) ==
    [d \in mesh_descriptor_ids |-> {d}]

\* A list of the elements of a set, in an order of the implementation's
\* choosing.
RECURSIVE ListOf(_)
ListOf(set) ==
    IF set = {}
    THEN <<>>
    ELSE LET x == CHOOSE y \in set : TRUE
         IN  <<x>> \o ListOf(set \ {x})

\* The child ids the triple loop appends under descriptor_id: one for every
\* row and every tree number of the descriptor the row starts with.
AppendedChildren(descriptor_id, map_descriptor_tns, rows) ==
    LET matches == ListOf({ m \in rows \X map_descriptor_tns[descriptor_id] :
                             StartsWith(m[1][2], m[2]) })
    IN  [k \in 1..Len(matches) |-> matches[k][1][1]]

\* A dedup that keeps the list as it is.
UniqueKeepsAll(list) == list

\* list(set(tree_numbers))
Unique(list) == ListOf({ list[k] : k \in DOMAIN list })

\* map_descriptor_children as the lists the loops leave: [descriptor_id]
\* followed by the appended children, then made unique.
MapDescriptorLists(mesh_descriptor_ids) ==
    LET map_descriptor_tns == MapDescriptorTns(mesh_descriptor_ids)
        rows == QueryDescs(TreeNumbersAll(mesh_descriptor_ids))
    IN  [d \in DOMAIN MapDescriptorChildren(mesh_descriptor_ids) |->
            Unique(<<d>> \o AppendedChildren(d, map_descriptor_tns, rows))]

-----------------------------------------------------------------------------
(* The tables the resolvers query.  The rows are fixed; row i takes its    *)
(* value in each column from a cycle of variants, the cycles having        *)
(* different periods so that the columns vary independently.               *)

Pick(variants, i) == variants[((i - 1) % Len(variants)) + 1]

\* 31536000 of the code, the seconds of a 365-day year (studies.py:498).
SecondsPerYear == 31536000

\* A row of clinicaltrials.facilities_canonical; the sublocality and
\* neighborhood columns are NULL in every row of the model.
FacilityRow(id, name, locality, aal1, country, coordinates) ==
    [facility_canonical_id |-> id, name |-> name, locality |-> locality,
     administrative_area_level_1 |-> aal1, country |-> country,
     sublocality |-> None, sublocality_level_1 |-> None,
     neighborhood |-> None, coordinates |-> coordinates]

\* clinicaltrials.facilities_canonical.  Coordinates are points of a grid;
\* facility 4 is a fallback row named after its city, facility 5 has no
\* city, no region and no coordinates.
FacilitiesCanonical ==
    << FacilityRow(1, Some("Mayo"), Some("Minneapolis"), Some("Minnesota"),
                   Some("United States"), Some(<<0, 0>>)),
       FacilityRow(2, Some("UVM"), Some("Burlington"), Some("Vermont"),
                   Some("United States"), Some(<<1, 0>>)),
       FacilityRow(3, Some("Charite"), Some("Berlin"), Some("Berlin"),
                   Some("Germany"), Some(<<2, 1>>)),
       FacilityRow(4, Some("Berlin"), Some("Berlin"), Some("Berlin"),
                   Some("Germany"), Some(<<2, 1>>)),
       FacilityRow(5, Some("Institute"), None, None,
                   Some("Germany"), None) >>

FacilityIds == 1..Len(FacilitiesCanonical)

\* The descriptors tagged against row i: every subset of Descriptors occurs.
DescriptorsOfRow(i) ==
    { d \in Descriptors : ((i - 1) \div (2 ^ (d - 1))) % 2 = 1 }

\* clinicaltrials.eligibilities: None stands for a study without an
\* eligibility row; minimum_age and maximum_age are the ages in seconds the
\* query computes from the row (func_age_beg_sec, func_age_end_sec), NULL
\* when the age is unknown.
AgeVariants ==
    << <<None, None>>,
       <<None, Some(2 * SecondsPerYear)>>,
       <<Some(1 * SecondsPerYear), None>>,
       <<Some(1 * SecondsPerYear), Some(2 * SecondsPerYear)>>,
       <<Some(0), Some(3 * SecondsPerYear)>>,
       <<Some(2 * SecondsPerYear), Some(3 * SecondsPerYear)>>,
       <<Some(0), Some(1 * SecondsPerYear)>>,
       <<None, Some(500)>>,
       <<Some(2 * SecondsPerYear), Some(2 * SecondsPerYear)>>,
       <<Some(3 * SecondsPerYear), None>> >>

GenderVariants == <<"ALL", "FEMALE", "MALE">>

EligibilityOfRow(i) ==
    IF i % 11 = 0
    THEN None
    ELSE Some([gender |-> Pick(GenderVariants, i),
               minimum_age |-> Pick(AgeVariants, i)[1],
               maximum_age |-> Pick(AgeVariants, i)[2]])

StartYearVariants == <<Some(2019), None, Some(2020), Some(2018), Some(2021)>>

FacilityVariants == << {1}, {}, {2}, {1, 2}, {3}, {4}, {2, 5} >>

InterventionVariants ==
    << {"DRUG"}, {}, {"DEVICE"}, {"DRUG", "DEVICE"}, {"DRUG"} >>

\* clinicaltrials.facilities: the country of each facility, NULL in one.
Facilities ==
    << [facility_id |-> 1, country |-> Some("United States")],
       [facility_id |-> 2, country |-> Some("United States")],
       [facility_id |-> 3, country |-> Some("Germany")],
       [facility_id |-> 4, country |-> None] >>

\* clinicaltrials.locations of a study as <<location_id, facility_id>>: the
\* same facility can be the place of two locations.
LocationVariants ==
    << {<<1, 1>>}, {<<1, 1>>, <<2, 2>>}, {}, {<<1, 3>>},
       {<<1, 1>>, <<2, 1>>, <<3, 3>>}, {<<1, 4>>, <<2, 3>>} >>

\* clinicaltrials.study_descriptors.study_descriptor_type of the row that
\* tags descriptor d against study i.
StudyDescriptorType(i, d) ==
    IF (i + d) % 2 = 0 THEN "CONDITION" ELSE "INTERVENTION"

\* clinicaltrials.studies with the related rows the resolvers join.
Studies ==
    [i \in 1..NumStudies |->
        [study_id |-> i,
         descriptors |-> DescriptorsOfRow(i),
         eligibility |-> EligibilityOfRow(i),
         start_year |-> Pick(StartYearVariants, i),
         overall_status |-> Pick(<<"RECRUITING", "COMPLETED">>, i),
         phase |-> Pick(<<"PHASE_1", "PHASE_2", "PHASE_3">>, i),
         study_type |-> Pick(<<"INTERVENTIONAL", "OBSERVATIONAL",
                               "INTERVENTIONAL">>, i + 1),
         interventions |-> Pick(InterventionVariants, i),
         facilities_canonical |-> Pick(FacilityVariants, i),
         locations |-> Pick(LocationVariants, i)]]

StudyIds == DOMAIN Studies

\* pubmed.affiliations_canonical: the country of each affiliation.
AffiliationsCanonical ==
    << [affiliation_canonical_id |-> 1, country |-> Some("United States")],
       [affiliation_canonical_id |-> 2, country |-> Some("Germany")],
       [affiliation_canonical_id |-> 3, country |-> Some("Germany")],
       [affiliation_canonical_id |-> 4, country |-> None] >>

\* pubmed.article_author_affiliations of the article of a citation, as
\* <<author_id, affiliation_canonical_id>>: several authors can share an
\* affiliation.
AffiliationVariants ==
    << {<<1, 1>>}, {<<1, 2>>, <<2, 3>>}, {}, {<<1, 1>>, <<2, 1>>, <<3, 2>>},
       {<<1, 4>>}, {<<1, 3>>, <<2, 3>>}, {<<1, 2>>, <<2, 4>>} >>

\* pubmed.citation_descriptors_qualifiers of a citation, as <<descriptor_id,
\* qualifier_id>>: a qualifier can qualify several descriptors.
QualifierVariants ==
    << {<<1, 1>>}, {<<1, 1>>, <<2, 1>>}, {}, {<<1, 2>>, <<2, 3>>},
       {<<3, 3>>} >>

QualifierIds == 1..3

\* pubmed.citations with the descriptors and the article of each citation.
Citations ==
    [i \in 1..NumCitations |->
        [citation_id |-> i,
         descriptors |-> DescriptorsOfRow(i),
         article |-> IF i % 5 = 0
                     THEN None
                     ELSE Some([publication_year |->
                                   Pick(<<2019, 2020, 2021>>, i)]),
         affiliations |-> Pick(AffiliationVariants, i),
         qualifiers |-> Pick(QualifierVariants, i)]]

CitationIds == DOMAIN Citations

-----------------------------------------------------------------------------
(* PostgreSQL operators the queries use.                                   *)

\* int8range(lower, upper): the default bounds are '[)'; a NULL bound is
\* infinite.
Int8Range(lower, upper) == [lower |-> lower, upper |-> upper]

\* int8range raises "range lower bound must be less than or equal to range
\* upper bound".
RangeInvalid(r) ==
    /\ r.lower # None
    /\ r.upper # None
    /\ r.lower[1] > r.upper[1]

\* [x, x) holds no integer.
RangeEmpty(r) ==
    /\ r.lower # None
    /\ r.upper # None
    /\ r.lower[1] >= r.upper[1]

\* An overlap operator for which a NULL bound compares as unknown.
RangeOverlapsBoundedOnly(a, b) ==
    /\ ~RangeEmpty(a)
    /\ ~RangeEmpty(b)
    /\ a.lower # None /\ a.upper # None
    /\ b.lower # None /\ b.upper # None
    /\ a.lower[1] < b.upper[1]
    /\ b.lower[1] < a.upper[1]

\* a && b: the ranges have a point in common.
RangeOverlaps(a, b) ==
    /\ ~RangeEmpty(a)
    /\ ~RangeEmpty(b)
    /\ (a.lower = None \/ b.upper = None \/ a.lower[1] < b.upper[1])
    /\ (b.lower = None \/ a.upper = None \/ b.lower[1] < a.upper[1])

\* array_agg(descriptor_id) && CAST(descriptor_ids AS BIGINT[]).
ArrayOverlaps(a, b) == a \cap b # {}

-----------------------------------------------------------------------------
(* The filters resolve_search and _apply_query_filters share, block for    *)
(* block.                                                                  *)

\* `if year_beg:` / `if year_end:` on start_date; a NULL start_date fails
\* every comparison.
YearFilter(start_year, year_beg, year_end) ==
    /\ TruthyNum(year_beg) =>
          (start_year # None /\ start_year[1] >= year_beg[1])
    /\ TruthyNum(year_end) =>
          (start_year # None /\ start_year[1] <= year_end[1])

\* `if gender or age_beg or age_end:` join(ModelStudy.eligibility).
JoinsEligibility(gender, age_beg, age_end) ==
    gender # None \/ TruthyNum(age_beg) \/ TruthyNum(age_end)

\* `if gender:` ... ; a gender outside ALL/FEMALE/MALE adds no filter.
GenderFilter(eligibility, gender) ==
    CASE gender = None -> TRUE
      [] gender = Some("ALL") -> eligibility.gender = "ALL"
      [] gender \in {Some("FEMALE"), Some("MALE")} ->
            eligibility.gender \in {"ALL", gender[1]}
      [] OTHER -> TRUE

\* `if age_beg or age_end:`
AgeFilterApplied(age_beg, age_end) == TruthyNum(age_beg) \/ TruthyNum(age_end)

\* age_beg * 31536000 and age_end * 31536000 are both evaluated inside the
\* block: None * int raises TypeError.
AgeTypeError(age_beg, age_end) ==
    /\ AgeFilterApplied(age_beg, age_end)
    /\ (age_beg = None \/ age_end = None)

\* range_age_user, defined when no TypeError was raised.
RangeAgeUser(age_beg, age_end) ==
    Int8Range(Some(age_beg[1] * SecondsPerYear),
              Some(age_end[1] * SecondsPerYear))

\* range_age_studies of an eligibility row.
RangeAgeStudies(eligibility) ==
    Int8Range(eligibility.minimum_age, eligibility.maximum_age)

\* range_age_user && range_age_studies.
AgeFilter(eligibility, age_beg, age_end) ==
    AgeFilterApplied(age_beg, age_end) =>
        RangeOverlaps(RangeAgeUser(age_beg, age_end),
                      RangeAgeStudies(eligibility))

\* The database rejects the query when a range cannot be built.
AgeDataError(age_beg, age_end) ==
    /\ AgeFilterApplied(age_beg, age_end)
    /\ \/ RangeInvalid(RangeAgeUser(age_beg, age_end))
       \/ \E i \in StudyIds :
            /\ Studies[i].eligibility # None
            /\ RangeInvalid(RangeAgeStudies(Studies[i].eligibility[1]))

\* The eligibility join with the gender and age filters on the joined row.
EligibilityFilters(study, gender, age_beg, age_end) ==
    JoinsEligibility(gender, age_beg, age_end) =>
        /\ study.eligibility # None
        /\ GenderFilter(study.eligibility[1], gender)
        /\ AgeFilter(study.eligibility[1], age_beg, age_end)

-----------------------------------------------------------------------------
(* TypeStudies._apply_query_filters.                                       *)

\* coalesce(column, "").
Coalesce(x, default) == IF x = None THEN default ELSE x[1]

\* add_canonical_facility_fix_filter: the facility is not named after one of
\* its address components.
CanonicalFacilityFixFilter(f) ==
    /\ Coalesce(f.name, "") # Coalesce(f.country, "")
    /\ Coalesce(f.name, "") # Coalesce(f.locality, "")
    /\ Coalesce(f.name, "") # Coalesce(f.administrative_area_level_1, "")
    /\ Coalesce(f.name, "") # Coalesce(f.sublocality, "")
    /\ Coalesce(f.name, "") # Coalesce(f.sublocality_level_1, "")
    /\ Coalesce(f.name, "") # Coalesce(f.neighborhood, "")

\* `cities or states or countries or facility_canonical_ids`
LocationSupplied(args) ==
    \/ TruthyList(args.cities)
    \/ TruthyList(args.states)
    \/ TruthyList(args.countries)
    \/ TruthyList(args.facility_canonical_ids)

\* `current_location_longitude and current_location_latitude and
\* distance_max_km`
GeoFilterApplied(args) ==
    /\ TruthyNum(args.current_location_longitude)
    /\ TruthyNum(args.current_location_latitude)
    /\ TruthyNum(args.distance_max_km)

\* column.in_(values): a NULL column is in no list.
InList(column, values) == column # None /\ column[1] \in values

\* The filters on the joined facility row, each added `if` its list is
\* truthy: they all constrain the same row.
LocationFilters(f, args) ==
    /\ TruthyList(args.cities) => InList(f.locality, args.cities[1])
    /\ TruthyList(args.states) =>
          InList(f.administrative_area_level_1, args.states[1])
    /\ TruthyList(args.countries) => InList(f.country, args.countries[1])
    /\ TruthyList(args.facility_canonical_ids) =>
          f.facility_canonical_id \in args.facility_canonical_ids[1]

Abs(x) == IF x < 0 THEN -x ELSE x

\* ST_Distance_Sphere(POINT(longitude latitude), coordinates) in meters.  The
\* points of the model lie on a grid whose neighbours are 1000 m apart and
\* the distance is taken along the grid.
DistanceSphere(longitude, latitude, coordinates) ==
    1000 * (Abs(longitude - coordinates[1]) + Abs(latitude - coordinates[2]))

\* func_distance <= distance_max_m; NULL coordinates give a NULL distance.
GeoFilter(f, args) ==
    GeoFilterApplied(args) =>
        /\ f.coordinates # None
        /\ DistanceSphere(args.current_location_longitude[1],
                          args.current_location_latitude[1],
                          f.coordinates[1])
              <= args.distance_max_km[1] * 1000

\* join(ModelStudy.facilities_canonical) happens for either group.
JoinsFacilities(args) == LocationSupplied(args) \/ GeoFilterApplied(args)

\* Stand-ins for "no row joined" in a joined row.
NoFacility == 0

NoIntervention == "-"

InterventionTypes == {"DRUG", "DEVICE"}

\* The facility rows joined to a study that pass the facility filters;
\* without the join the study contributes one row, with no facility.
JoinedFacilities(study, args) ==
    IF JoinsFacilities(args)
    THEN { f \in study.facilities_canonical :
            /\ CanonicalFacilityFixFilter(FacilitiesCanonical[f])
            /\ LocationFilters(FacilitiesCanonical[f], args)
            /\ GeoFilter(FacilitiesCanonical[f], args) }
    ELSE {NoFacility}

\* Likewise for join(ModelStudy.interventions) and its filter.
JoinedInterventions(study, args) ==
    IF TruthyList(args.intervention_types)
    THEN study.interventions \cap args.intervention_types[1]
    ELSE {NoIntervention}

\* The filters on the columns of the study and of its eligibility row.
StudyFilters(study, args) ==
    /\ (args.study_ids # {}) => study.study_id \in args.study_ids
    /\ TruthyList(args.overall_statuses) =>
          study.overall_status \in args.overall_statuses[1]
    /\ TruthyList(args.phases) => study.phase \in args.phases[1]
    /\ TruthyList(args.study_types) =>
          study.study_type \in args.study_types[1]
    /\ YearFilter(study.start_year, args.year_beg, args.year_end)
    /\ EligibilityFilters(study, args.gender, args.age_beg, args.age_end)

\* The rows of the joined query: <<study_id, facility_canonical_id,
\* intervention_type>>, one per combination of joined rows that passes every
\* filter.
JoinedRows(args) ==
    UNION { {i} \X JoinedFacilities(Studies[i], args)
                \X JoinedInterventions(Studies[i], args) :
            i \in { j \in StudyIds : StudyFilters(Studies[j], args) } }

\* What building the filtered query raises, "" for nothing.
ApplyQueryFiltersRaised(args) ==
    IF AgeTypeError(args.age_beg, args.age_end) THEN "TypeError" ELSE ""

\* What running the filtered query raises, "" for nothing.
QueryRaised(args) ==
    IF AgeDataError(args.age_beg, args.age_end) THEN "DataError" ELSE ""

-----------------------------------------------------------------------------
(* TypeStudies.resolve_filter and TypeStudies.resolve_count.               *)

\* graphene's to_snake_case on the names the model supplies.
ToSnakeCase(name) ==
    CASE name = "studyId" -> "study_id"
      [] name = "startDate" -> "start_date"
      [] name = "facilitiesCanonical" -> "facilities_canonical"
      [] name = "facilityCanonicalId" -> "facility_canonical_id"
      [] name = "briefTitle" -> "brief_title"
      [] name = "locationId" -> "location_id"
      [] OTHER -> name

\* getattr(ModelStudy, order_by).asc(): a column orders, a relationship
\* attribute does not implement asc/desc, anything else is no attribute.
StudyOrderByRaised(order_by) ==
    CASE order_by \in {"study_id", "start_date"} -> ""
      [] order_by \in {"facilities_canonical", "descriptors",
                       "interventions", "eligibility"} ->
            "NotImplementedError"
      [] OTHER -> "AttributeError"

\* A value above every sort key: NULLs sort as larger than any value.
NullKey == 100000

\* The ORDER BY key of a study, negated for DESC.
StudyOrderKey(i, order_by, desc) ==
    LET value ==
            CASE order_by = "study_id" -> i
              [] order_by = "start_date" ->
                    IF Studies[i].start_year = None
                    THEN NullKey
                    ELSE Studies[i].start_year[1]
              [] OTHER -> 0
    IN  IF desc THEN -value ELSE value

\* The order in which the database hands out rows that ORDER BY does not
\* separate: by ascending or by descending id, the choice is not the
\* caller's.
ScanBefore(scan, a, b) == IF scan = "asc" THEN a < b ELSE a > b

\* a comes before b in the ordered result.
StudyBefore(a, b, order_by, desc, scan) ==
    \/ StudyOrderKey(a, order_by, desc) < StudyOrderKey(b, order_by, desc)
    \/ /\ StudyOrderKey(a, order_by, desc) = StudyOrderKey(b, order_by, desc)
       /\ ScanBefore(scan, a, b)

\* The studies as the ordered list the query returns.
RECURSIVE SortedStudies(_, _, _, _)
SortedStudies(ids, order_by, desc, scan) ==
    IF ids = {}
    THEN <<>>
    ELSE LET first == CHOOSE a \in ids : \A b \in ids \ {a} :
                          StudyBefore(a, b, order_by, desc, scan)
         IN  <<first>> \o SortedStudies(ids \ {first}, order_by, desc, scan)

\* OFFSET then LIMIT, each applied `if` truthy.
Page(rows, offset, limit) ==
    LET skipped == IF TruthyNum(offset)
                   THEN SubSeq(rows, offset[1] + 1, Len(rows))
                   ELSE rows
    IN  IF TruthyNum(limit)
        THEN SubSeq(skipped, 1, Min(limit[1], Len(skipped)))
        ELSE skipped

\* GROUP BY studies.study_id: one row per study of the joined rows.
GroupByStudy(rows) == {row[1] : row \in rows}

ResolveFilter(args, scan) ==
    LET order_by == IF TruthyStr(args.order_by)
                    THEN ToSnakeCase(args.order_by[1])
                    ELSE ""
        desc == args.order = Some("DESC")
        raised ==
            CASE ApplyQueryFiltersRaised(args) # "" ->
                    ApplyQueryFiltersRaised(args)
              [] ApplyQueryFiltersRaised(args) = "" /\ order_by # ""
                 /\ StudyOrderByRaised(order_by) # "" ->
                    StudyOrderByRaised(order_by)
              [] OTHER -> QueryRaised(args)
    IN  [raised |-> raised,
         geo_filter |-> GeoFilterApplied(args),
         rows |-> IF raised # ""
                  THEN <<>>
                  ELSE Page(SortedStudies(GroupByStudy(JoinedRows(args)),
                                          order_by, desc, scan),
                            args.offset, args.limit)]

\* COUNT(studies.study_id) over the joined rows, the DISTINCT left out.
CountJoinedStudies(rows) == Cardinality(rows)

\* COUNT(DISTINCT studies.study_id) over the joined rows.
CountDistinctStudies(rows) == Cardinality({row[1] : row \in rows})

ResolveCount(args) ==
    LET raised == IF ApplyQueryFiltersRaised(args) # ""
                  THEN ApplyQueryFiltersRaised(args)
                  ELSE QueryRaised(args)
    IN  [raised |-> raised,
         geo_filter |-> GeoFilterApplied(args),
         count |-> IF raised # ""
                   THEN 0
                   ELSE CountDistinctStudies(JoinedRows(args))]

-----------------------------------------------------------------------------
(* TypeStudies.resolve_search and TypeCitations.resolve_search.            *)

\* HAVING and_(array_agg && closure, for every value of the map).
HavingDescriptors(descriptors, map_descriptor_children) ==
    \A d \in DOMAIN map_descriptor_children :
        ArrayOverlaps(descriptors, map_descriptor_children[d])

\* The studies the search query returns.
SearchStudiesRows(map_descriptor_children, args) ==
    { i \in StudyIds :
        /\ Studies[i].descriptors # {}
        /\ YearFilter(Studies[i].start_year, args.year_beg, args.year_end)
        /\ EligibilityFilters(Studies[i], args.gender, args.age_beg,
                              args.age_end)
        /\ HavingDescriptors(Studies[i].descriptors, map_descriptor_children) }

\* The citations the search query returns.
SearchCitationsRows(map_descriptor_children, year_beg, year_end) ==
    { i \in CitationIds :
        /\ Citations[i].descriptors # {}
        /\ (TruthyNum(year_beg) \/ TruthyNum(year_end)) =>
              Citations[i].article # None
        /\ TruthyNum(year_beg) =>
              Citations[i].article[1].publication_year >= year_beg[1]
        /\ TruthyNum(year_end) =>
              Citations[i].article[1].publication_year <= year_end[1]
        /\ HavingDescriptors(Citations[i].descriptors,
                             map_descriptor_children) }

\* The first half of either resolve_search: where the closure code leaves
\* the call.  "no_tree_numbers" and "no_descriptors" are the two early
\* `return []`; in the first the map was never created.
ClosureStage(mesh_descriptor_ids, do_include_children) ==
    CASE do_include_children /\ TreeNumbersAll(mesh_descriptor_ids) = {} ->
            "no_tree_numbers"
      [] do_include_children
         /\ DOMAIN MapDescriptorChildren(mesh_descriptor_ids) = {} ->
            "no_descriptors"
      [] ~do_include_children /\ mesh_descriptor_ids = {} ->
            "no_descriptors"
      [] OTHER -> "query"

\* The lists of map_descriptor_children, where the map exists.
ClosureLists(mesh_descriptor_ids, do_include_children) ==
    CASE do_include_children /\ TreeNumbersAll(mesh_descriptor_ids) = {} ->
            <<>>
      [] do_include_children -> MapDescriptorLists(mesh_descriptor_ids)
      [] OTHER -> [d \in mesh_descriptor_ids |-> <<d>>]

ClosureMap(mesh_descriptor_ids, do_include_children) ==
    CASE do_include_children /\ TreeNumbersAll(mesh_descriptor_ids) = {} ->
            <<>>
      [] do_include_children -> MapDescriptorChildren(mesh_descriptor_ids)
      [] OTHER -> MapDescriptorSelf(mesh_descriptor_ids)

SearchResponse(stage, map_descriptor_children, lists, raised, rows) ==
    [stage |-> stage,
     map_descriptor_children |-> map_descriptor_children,
     map_descriptor_lists |-> lists,
     raised |-> raised,
     rows |-> rows]

ResolveSearchStudies(args) ==
    LET stage == ClosureStage(args.mesh_descriptor_ids,
                              args.do_include_children)
        map_descriptor_children ==
            ClosureMap(args.mesh_descriptor_ids, args.do_include_children)
        lists ==
            ClosureLists(args.mesh_descriptor_ids, args.do_include_children)
    IN  CASE stage # "query" ->
                SearchResponse(stage, map_descriptor_children, lists, "", {})
          [] stage = "query" /\ AgeTypeError(args.age_beg, args.age_end) ->
                SearchResponse(stage, map_descriptor_children, lists,
                               "TypeError", {})
          [] stage = "query" /\ ~AgeTypeError(args.age_beg, args.age_end)
             /\ AgeDataError(args.age_beg, args.age_end) ->
                SearchResponse(stage, map_descriptor_children, lists,
                               "DataError", {})
          [] OTHER ->
                SearchResponse(stage, map_descriptor_children, lists, "",
                    SearchStudiesRows(map_descriptor_children, args))

ResolveSearchCitations(args) ==
    LET stage == ClosureStage(args.mesh_descriptor_ids,
                              args.do_include_children)
        map_descriptor_children ==
            ClosureMap(args.mesh_descriptor_ids, args.do_include_children)
        lists ==
            ClosureLists(args.mesh_descriptor_ids, args.do_include_children)
    IN  IF stage # "query"
        THEN SearchResponse(stage, map_descriptor_children, lists, "", {})
        ELSE SearchResponse(stage, map_descriptor_children, lists, "",
                SearchCitationsRows(map_descriptor_children,
                                    args.year_beg, args.year_end))

-----------------------------------------------------------------------------
(* The load-option planner of ffgraphql/utils.py.                          *)

\* What sqlalchemy.inspect gives for the ORM classes the planner walks: the
\* column keys, the primary key and the relationships with their classes.
Columns ==
    [Study |-> {"study_id", "brief_title"},
     Location |-> {"location_id", "status"},
     Facility |-> {"facility_id", "name"},
     Investigator |-> {"investigator_id", "role"},
     Intervention |-> {"intervention_id", "name"},
     FacilityCanonical |-> {"facility_canonical_id", "name", "locality",
                            "country"},
     AffiliationCanonical |-> {"affiliation_canonical_id", "name",
                               "country"},
     Qualifier |-> {"qualifier_id", "name"}]

PrimaryKey ==
    [Study |-> "study_id", Location |-> "location_id",
     Facility |-> "facility_id", Investigator |-> "investigator_id",
     Intervention |-> "intervention_id",
     FacilityCanonical |-> "facility_canonical_id",
     AffiliationCanonical |-> "affiliation_canonical_id",
     Qualifier |-> "qualifier_id"]

Relationships ==
    [Study |-> [locations |-> "Location", interventions |-> "Intervention"],
     Location |-> [facility |-> "Facility",
                   investigators |-> "Investigator"],
     Facility |-> <<>>,
     Investigator |-> <<>>,
     Intervention |-> <<>>,
     FacilityCanonical |-> <<>>,
     AffiliationCanonical |-> <<>>,
     Qualifier |-> <<>>]

\* The requested fields are a nested dict: name -> None | dict.  The model
\* keeps a dict as the set of the key paths in it; a path without longer
\* paths below it maps to None unless it is listed in `empty`, in which case
\* it maps to the empty dict.
FieldPaths ==
    { <<"study_id">>, <<"brief_title">>, <<"display">>,
      <<"display", "text">>,
      <<"locations">>, <<"locations", "location_id">>,
      <<"locations", "display">>,
      <<"locations", "facility">>,
      <<"locations", "facility", "name">>,
      <<"locations", "facility", "facility_id">>,
      <<"locations", "investigators">>,
      <<"locations", "investigators", "role">>,
      <<"interventions">>, <<"interventions", "name">> }

\* The order in which the keys of a dict are visited.
KeyOrder ==
    << "study_id", "brief_title", "display", "locations", "location_id",
       "facility", "name", "facility_id", "investigators", "role",
       "interventions", "facility_canonical_id", "locality", "country",
       "text", "affiliation_canonical_id", "qualifier_id" >>

IsPrefix(p, q) == Len(p) <= Len(q) /\ SubSeq(q, 1, Len(p)) = p

\* The keys of the dict at `path`.
KeysAt(fields, path) ==
    { q[Len(path) + 1] :
        q \in { r \in fields.paths :
                  Len(r) = Len(path) + 1 /\ IsPrefix(path, r) } }

\* The value at `path` is None, not a dict.
IsNoneAt(fields, path) ==
    /\ path # <<>>
    /\ KeysAt(fields, path) = {}
    /\ path \notin fields.empty

\* The requested-field dicts of the model: every path comes with its
\* prefixes, and a relationship key without keys below may hold {}.
FieldTrees ==
    { [paths |-> ps, empty |-> em] :
        ps \in { x \in SUBSET FieldPaths :
                   \A q \in x : Len(q) > 1 =>
                       SubSeq(q, 1, Len(q) - 1) \in x },
        em \in SUBSET { <<"locations">>, <<"locations", "facility">>,
                        <<"interventions">> } }

WellFormedTree(fields) ==
    \A q \in fields.empty :
        q \in fields.paths /\ KeysAt(fields, q) = {}

\* A planner that adds the primary key of the class to what was requested.
GetLoadOnlyFieldsWithPrimaryKey(fields, path, class) ==
    { key \in KeysAt(fields, path) : key \in Columns[class] }
        \cup {PrimaryKey[class]}

\* _get_load_only_fields: the keys of fields_all that are columns of the
\* class; fields_all.keys() on None raises AttributeError.
GetLoadOnlyFields(fields, path, class) ==
    { key \in KeysAt(fields, path) : key \in Columns[class] }

\* load_only(*attrs), at the root or chained on joinedload(attr_rel): the
\* option as the planner builds it, the relationship path it applies to and
\* the column keys it names.
LoadOnly(path, attrs) == [path |-> path, load_only |-> attrs]

\* A planner that visits every requested relationship twice.
NamesRelsVisitedTwice(fields, path, class) ==
    SelectSeq(KeyOrder \o KeyOrder,
              LAMBDA key : /\ key \in KeysAt(fields, path)
                           /\ key \in DOMAIN Relationships[class])

\* names_rels in the order the keys are visited.
NamesRels(fields, path, class) ==
    SelectSeq(KeyOrder,
              LAMBDA key : /\ key \in KeysAt(fields, path)
                           /\ key \in DOMAIN Relationships[class])

\* _get_query_options(fields_all, inspection, option): the list of options,
\* each the chain of load_only / joinedload.load_only from the root down one
\* relationship path, or the AttributeError of a relationship whose value is
\* None.
RECURSIVE GetQueryOptions(_, _, _, _)
RECURSIVE GetQueryOptionsLoop(_, _, _, _, _)
\* A planner that takes a key that is neither a column nor a relationship
\* of the class for an error.
GetQueryOptionsStrict(fields, path, class, option) ==
    LET names_rels == NamesRels(fields, path, class)
    IN  CASE KeysAt(fields, path) \ (Columns[class]
                                        \cup DOMAIN Relationships[class])
                # {} ->
                [raised |-> "AttributeError", options |-> <<>>]
          [] OTHER ->
                IF names_rels = <<>>
                THEN [raised |-> "", options |-> <<option>>]
                ELSE GetQueryOptionsLoop(fields, path, class, option,
                                         names_rels)

GetQueryOptions(fields, path, class, option) ==
    LET names_rels == NamesRels(fields, path, class)
    IN  IF names_rels = <<>>
        THEN [raised |-> "", options |-> <<option>>]
        ELSE GetQueryOptionsLoop(fields, path, class, option, names_rels)

\* The `for name_rel in names_rels` loop over the names still to visit.
GetQueryOptionsLoop(fields, path, class, option, names) ==
    IF names = <<>>
    THEN [raised |-> "", options |-> <<>>]
    ELSE LET name_rel == Head(names)
             path_rel == Append(path, name_rel)
             class_rel == Relationships[class][name_rel]
         IN  IF IsNoneAt(fields, path_rel)
             THEN [raised |-> "AttributeError", options |-> <<>>]
             ELSE LET fields_lo_rel ==
                          GetLoadOnlyFields(fields, path_rel, class_rel)
                      nested ==
                          GetQueryOptions(fields, path_rel, class_rel,
                              Append(option,
                                     LoadOnly(path_rel, fields_lo_rel)))
                      rest ==
                          GetQueryOptionsLoop(fields, path, class, option,
                                              Tail(names))
                  IN  CASE nested.raised # "" -> nested
                        [] nested.raised = "" /\ rest.raised # "" -> rest
                        [] OTHER ->
                            [raised |-> "",
                             options |-> nested.options \o rest.options]

\* apply_requested_fields(info, query, orm_class=ModelStudy): the options of
\* the dict under the resolver's key, starting from the root load_only.
ApplyRequestedFields(fields) ==
    GetQueryOptions(fields, <<>>, "Study",
        <<LoadOnly(<<>>, GetLoadOnlyFields(fields, <<>>, "Study"))>>)

-----------------------------------------------------------------------------
(* TypeStudiesStats.resolve_count_studies_by_facility.                     *)

\* The requested fields under countStudiesByFacility.facilityCanonical: the
\* key is absent, its value is None, or its value is a dict of keys.
FacilityFieldsAbsent == [kind |-> "absent", keys |-> {}]

FacilityFieldsNone == [kind |-> "none", keys |-> {}]

FacilityFieldsDict(keys) == [kind |-> "dict", keys |-> keys]

\* [...]["facility_canonical"] raises KeyError when the key is absent; then
\* apply_requested_fields(fields={"facility": fields}) plans the facility
\* columns and raises AttributeError on None.
FacilityFieldsPlan(facility_fields) ==
    CASE facility_fields.kind = "absent" ->
            [raised |-> "KeyError", options |-> <<>>]
      [] facility_fields.kind = "none" ->
            [raised |-> "AttributeError", options |-> <<>>]
      [] OTHER ->
            GetQueryOptions(
                [paths |-> {<<key>> : key \in facility_fields.keys},
                 empty |-> {}],
                <<>>, "FacilityCanonical",
                <<LoadOnly(<<>>, facility_fields.keys
                                    \cap Columns["FacilityCanonical"])>>)

\* getattr(ModelFacilityCanonical, order_by).asc()
FacilityOrderByRaised(order_by) ==
    CASE order_by \in {"facility_canonical_id", "name"} -> ""
      [] order_by \in {"studies"} -> "NotImplementedError"
      [] OTHER -> "AttributeError"

\* The place of a facility name in the alphabet.
NameRank(name) ==
    CASE name = "Berlin" -> 1
      [] name = "Charite" -> 2
      [] name = "Institute" -> 3
      [] name = "Mayo" -> 4
      [] name = "UVM" -> 5
      [] OTHER -> 0

\* The <<study_id, facility_canonical_id>> rows of studies joined to their
\* canonical facilities that pass the filters.  The study-id filter is added
\* a second time without the `if`, so an empty list leaves no row; the
\* location lists and the distance constrain the joined facility.
FacilityJoinedRows(args, mesh_descriptor_ids) ==
    UNION { {i} \X { f \in Studies[i].facilities_canonical :
                /\ TruthyList(args.cities) =>
                      InList(FacilitiesCanonical[f].locality, args.cities[1])
                /\ TruthyList(args.states) =>
                      InList(FacilitiesCanonical[f]
                                .administrative_area_level_1, args.states[1])
                /\ TruthyList(args.countries) =>
                      InList(FacilitiesCanonical[f].country,
                             args.countries[1])
                /\ GeoFilter(FacilitiesCanonical[f], args) } :
            i \in { j \in StudyIds :
                /\ j \in args.study_ids
                /\ TruthyList(args.overall_statuses) =>
                      Studies[j].overall_status \in args.overall_statuses[1]
                /\ TruthyList(mesh_descriptor_ids) =>
                      Studies[j].descriptors \cap mesh_descriptor_ids[1]
                          # {} } }

\* GROUP BY facility_canonical_id with COUNT(DISTINCT studies.study_id).
CountStudiesOfFacility(rows, f) ==
    Cardinality({ row[1] : row \in { r \in rows : r[2] = f } })

\* ORDER BY count DESC, then the order_by column appended after it.
FacilityOrderKey(f, order_by, desc) ==
    LET value ==
            CASE order_by = "facility_canonical_id" -> f
              [] order_by = "name" ->
                    NameRank(Coalesce(FacilitiesCanonical[f].name, ""))
              [] OTHER -> 0
    IN  IF desc THEN -value ELSE value

FacilityBefore(a, b, rows, order_by, desc, scan) ==
    \/ CountStudiesOfFacility(rows, a) > CountStudiesOfFacility(rows, b)
    \/ /\ CountStudiesOfFacility(rows, a) = CountStudiesOfFacility(rows, b)
       /\ \/ FacilityOrderKey(a, order_by, desc)
                < FacilityOrderKey(b, order_by, desc)
          \/ /\ FacilityOrderKey(a, order_by, desc)
                   = FacilityOrderKey(b, order_by, desc)
             /\ ScanBefore(scan, a, b)

RECURSIVE SortedFacilities(_, _, _, _, _)
SortedFacilities(fs, rows, order_by, desc, scan) ==
    IF fs = {}
    THEN <<>>
    ELSE LET first == CHOOSE a \in fs : \A b \in fs \ {a} :
                          FacilityBefore(a, b, rows, order_by, desc, scan)
         IN  <<[facility_canonical |-> first,
                count_studies |-> CountStudiesOfFacility(rows, first)]>>
             \o SortedFacilities(fs \ {first}, rows, order_by, desc, scan)

ResolveCountStudiesByFacility(args, mesh_descriptor_ids, facility_fields, scan) ==
    LET order_by == IF TruthyStr(args.order_by)
                    THEN ToSnakeCase(args.order_by[1])
                    ELSE ""
        desc == args.order = Some("DESC")
        plan == FacilityFieldsPlan(facility_fields)
        raised ==
            CASE plan.raised # "" -> plan.raised
              [] plan.raised = "" /\ order_by # ""
                 /\ FacilityOrderByRaised(order_by) # "" ->
                    FacilityOrderByRaised(order_by)
              [] OTHER -> ""
        rows == FacilityJoinedRows(args, mesh_descriptor_ids)
    IN  [raised |-> raised,
         geo_filter |-> GeoFilterApplied(args),
         options |-> plan.options,
         rows |-> IF raised # ""
                  THEN <<>>
                  ELSE Page(SortedFacilities({row[2] : row \in rows}, rows,
                                             order_by, desc, scan),
                            args.offset, args.limit)]

-----------------------------------------------------------------------------
(* The aggregations of TypeStudiesStats and TypeCitationsStats, and the     *)
(* count by country of schema_types.TypeStudyStats.                        *)

\* `if study_ids: filter(ModelStudy.study_id.in_(study_ids))`
SelectedStudies(study_ids) ==
    IF study_ids # {} THEN StudyIds \cap study_ids ELSE StudyIds

\* filter(ModelCitation.citation_id.in_(citation_ids)), without an `if`.
SelectedCitations(citation_ids) == CitationIds \cap citation_ids

\* The keys of GROUP BY over joined rows <<entity, key, ...>>.
GroupKeys(rows) == { row[2] : row \in rows }

\* COUNT(DISTINCT entity) of every group.
CountDistinct(rows) ==
    [key \in GroupKeys(rows) |->
        Cardinality({ row[1] : row \in { r \in rows : r[2] = key } })]

\* COUNT(entity) of every group: the joined rows of the group.
CountJoinedRows(rows) ==
    [key \in GroupKeys(rows) |->
        Cardinality({ r \in rows : r[2] = key })]

\* group a comes before group b under ORDER BY count DESC; the database
\* hands out groups of equal count in an order of its own.
GroupBefore(a, b, count, rank, scan) ==
    \/ count[a] > count[b]
    \/ count[a] = count[b] /\ ScanBefore(scan, rank[a], rank[b])

\* query.order_by(func_count.desc()).all()
RECURSIVE OrderedGroups(_, _, _, _)
OrderedGroups(keys, count, rank, scan) ==
    IF keys = {}
    THEN <<>>
    ELSE LET first == CHOOSE a \in keys : \A b \in keys \ {a} :
                          GroupBefore(a, b, count, rank, scan)
         IN  <<[key |-> first, count |-> count[first]]>>
             \o OrderedGroups(keys \ {first}, count, rank, scan)

\* query.all() of a grouped query without ORDER BY.
RECURSIVE ScannedGroups(_, _, _, _)
ScannedGroups(keys, count, rank, scan) ==
    IF keys = {}
    THEN <<>>
    ELSE LET first == CHOOSE a \in keys : \A b \in keys \ {a} :
                          ScanBefore(scan, rank[a], rank[b])
         IN  <<[key |-> first, count |-> count[first]]>>
             \o ScannedGroups(keys \ {first}, count, rank, scan)

\* `if limit: query.limit(limit)`
Limit(rows, limit) == Page(rows, None, limit)

\* The place of a country among the countries of the tables.
CountryRank(country) ==
    CASE country = None -> 0
      [] country = Some("Germany") -> 1
      [] country = Some("United States") -> 2
      [] OTHER -> 3

StatusRank(status) ==
    CASE status = "COMPLETED" -> 1
      [] status = "RECRUITING" -> 2
      [] OTHER -> 3

AggregationResponse(raised, rows) == [raised |-> raised, rows |-> rows]

\* resolve_count_studies_by_country: studies joined to their canonical
\* facilities, grouped by the country of the facility.
StudyCountryRows(study_ids) ==
    UNION { { <<i, FacilitiesCanonical[f].country, f>> :
                f \in Studies[i].facilities_canonical } :
            i \in SelectedStudies(study_ids) }

ResolveCountStudiesByCountry(study_ids, limit, scan) ==
    LET rows == StudyCountryRows(study_ids)
    IN  AggregationResponse("",
            Limit(OrderedGroups(GroupKeys(rows), CountDistinct(rows),
                                [key \in GroupKeys(rows) |->
                                    CountryRank(key)], scan),
                  limit))

\* resolve_count_studies_by_overall_status.
StudyStatusRows(study_ids) ==
    { <<i, Studies[i].overall_status>> : i \in SelectedStudies(study_ids) }

ResolveCountStudiesByOverallStatus(study_ids, limit, scan) ==
    LET rows == StudyStatusRows(study_ids)
    IN  AggregationResponse("",
            Limit(OrderedGroups(GroupKeys(rows), CountDistinct(rows),
                                [key \in GroupKeys(rows) |->
                                    StatusRank(key)], scan),
                  limit))

\* The study_descriptors rows of a study that pass `if mesh_term_type:`.
TypedDescriptors(i, mesh_term_type) ==
    { d \in Studies[i].descriptors :
        mesh_term_type # None =>
            StudyDescriptorType(i, d) = mesh_term_type[1] }

\* resolve_count_studies_by_facility_descriptor: facilities joined to their
\* studies and the descriptors of those, grouped by <<facility, descriptor>>.
StudyFacilityDescriptorRows(args) ==
    UNION { { <<i, <<f, d>>>> :
                f \in { g \in Studies[i].facilities_canonical :
                          TruthyList(args.facility_canonical_ids) =>
                              g \in args.facility_canonical_ids[1] },
                d \in TypedDescriptors(i, args.mesh_term_type) } :
            i \in SelectedStudies(args.study_ids) }

ResolveCountStudiesByFacilityDescriptor(args, scan) ==
    LET rows == StudyFacilityDescriptorRows(args)
    IN  AggregationResponse("",
            Limit(OrderedGroups(GroupKeys(rows), CountDistinct(rows),
                                [key \in GroupKeys(rows) |->
                                    key[1] * (NumDescriptors + 1) + key[2]],
                                scan),
                  args.limit))

\* resolve_count_studies_by_descriptor: descriptors joined to the
\* study_descriptors rows, grouped by descriptor.
StudyDescriptorRows(args) ==
    UNION { { <<i, d>> : d \in TypedDescriptors(i, args.mesh_term_type) } :
            i \in SelectedStudies(args.study_ids) }

ResolveCountStudiesByDescriptor(args, scan) ==
    LET rows == StudyDescriptorRows(args)
    IN  AggregationResponse("",
            Limit(OrderedGroups(GroupKeys(rows), CountDistinct(rows),
                                [key \in GroupKeys(rows) |-> key], scan),
                  args.limit))

\* The article_author_affiliations rows joined to a citation through its
\* article.
AffiliationsOf(i) ==
    IF Citations[i].article = None THEN {} ELSE Citations[i].affiliations

\* resolve_count_citations_by_country: <<citation, country, author,
\* affiliation>>.
CitationCountryRows(citation_ids) ==
    UNION { { <<i, AffiliationsCanonical[row[2]].country, row>> :
                row \in AffiliationsOf(i) } :
            i \in SelectedCitations(citation_ids) }

ResolveCountCitationsByCountry(citation_ids, limit, scan) ==
    LET rows == CitationCountryRows(citation_ids)
    IN  AggregationResponse("",
            Limit(OrderedGroups(GroupKeys(rows), CountDistinct(rows),
                                [key \in GroupKeys(rows) |->
                                    CountryRank(key)], scan),
                  limit))

\* The requested fields under the entity key of an aggregation, planned for
\* the class of the entity: KeyError when the key is absent, AttributeError
\* when its value is None.
EntityFieldsPlan(entity_fields, class) ==
    CASE entity_fields.kind = "absent" ->
            [raised |-> "KeyError", options |-> <<>>]
      [] entity_fields.kind = "none" ->
            [raised |-> "AttributeError", options |-> <<>>]
      [] OTHER ->
            GetQueryOptions(
                [paths |-> {<<key>> : key \in entity_fields.keys},
                 empty |-> {}],
                <<>>, class,
                <<LoadOnly(<<>>, entity_fields.keys \cap Columns[class])>>)

\* resolve_count_citations_by_affiliation: <<citation, affiliation, author>>.
CitationAffiliationRows(citation_ids) ==
    UNION { { <<i, row[2], row[1]>> : row \in AffiliationsOf(i) } :
            i \in SelectedCitations(citation_ids) }

ResolveCountCitationsByAffiliation(citation_ids, fields, limit, scan) ==
    LET rows == CitationAffiliationRows(citation_ids)
        plan == EntityFieldsPlan(fields, "AffiliationCanonical")
    IN  AggregationResponse(plan.raised,
            IF plan.raised # ""
            THEN <<>>
            ELSE Limit(OrderedGroups(GroupKeys(rows), CountDistinct(rows),
                                     [key \in GroupKeys(rows) |-> key],
                                     scan),
                       limit))

\* resolve_count_citations_by_qualifier: <<citation, qualifier, descriptor>>.
CitationQualifierRows(citation_ids) ==
    UNION { { <<i, row[2], row[1]>> : row \in Citations[i].qualifiers } :
            i \in SelectedCitations(citation_ids) }

ResolveCountCitationsByQualifier(citation_ids, fields, limit, scan) ==
    LET rows == CitationQualifierRows(citation_ids)
        plan == EntityFieldsPlan(fields, "Qualifier")
    IN  AggregationResponse(plan.raised,
            IF plan.raised # ""
            THEN <<>>
            ELSE Limit(OrderedGroups(GroupKeys(rows), CountDistinct(rows),
                                     [key \in GroupKeys(rows) |-> key],
                                     scan),
                       limit))

\* schema_types.TypeStudyStats.resolve_count_studies_by_country: studies
\* joined to their locations and those to their facilities, grouped by the
\* country of the facility with COUNT(Study.study_id); no filter, no ORDER
\* BY, no limit.
LocationCountryRows ==
    UNION { { <<i, Facilities[row[2]].country, row>> :
                row \in Studies[i].locations } :
            i \in StudyIds }

ResolveCountStudiesByCountryOfLocations(scan) ==
    LET rows == LocationCountryRows
    IN  AggregationResponse("",
            ScannedGroups(GroupKeys(rows), CountJoinedRows(rows),
                          [key \in GroupKeys(rows) |-> CountryRank(key)],
                          scan))

-----------------------------------------------------------------------------
(* The arguments a caller supplies.                                        *)

OptAges == {None} \cup {Some(a) : a \in 0..MaxAge}

OptYears == {None, Some(2019), Some(2020)}

OptGenders == {None, Some("ALL"), Some("FEMALE"), Some("MALE")}

NoEligibilityArgs ==
    [gender |-> None, year_beg |-> None, year_end |-> None,
     age_beg |-> None, age_end |-> None]

\* The gender, year and age arguments of one call: each group on its own
\* and a few mixed calls.
EligibilityArgs ==
    { [NoEligibilityArgs EXCEPT !.age_beg = a, !.age_end = b] :
        a \in OptAges, b \in OptAges }
    \cup { [NoEligibilityArgs EXCEPT !.gender = g] : g \in OptGenders }
    \cup { [NoEligibilityArgs EXCEPT !.year_beg = y, !.year_end = z] :
        y \in OptYears, z \in OptYears }
    \cup { [NoEligibilityArgs EXCEPT !.gender = Some("FEMALE"),
                                     !.year_beg = Some(2019),
                                     !.age_beg = Some(1), !.age_end = b] :
        b \in OptAges }

OptCoordinates == {None, Some(0), Some(1), Some(2)}

OptKm == {None} \cup {Some(k) : k \in 0..MaxKm}

OptPage == {None} \cup {Some(k) : k \in 0..MaxPage}

NoFilterArgs ==
    [study_ids |-> {}, overall_statuses |-> None, cities |-> None,
     states |-> None, countries |-> None, facility_canonical_ids |-> None,
     current_location_longitude |-> None,
     current_location_latitude |-> None, distance_max_km |-> None,
     intervention_types |-> None, phases |-> None, study_types |-> None,
     gender |-> None, year_beg |-> None, year_end |-> None,
     age_beg |-> None, age_end |-> None,
     order_by |-> None, order |-> None, offset |-> None, limit |-> None]

\* Calls with the geospatial arguments, alone or with a city list.
GeoArgs ==
    { [NoFilterArgs EXCEPT !.current_location_longitude = lon,
                           !.current_location_latitude = lat,
                           !.distance_max_km = km,
                           !.cities = c] :
        lon \in OptCoordinates, lat \in OptCoordinates \ {Some(2)},
        km \in OptKm, c \in {None, Some({"Berlin"})} }

\* Calls with the location lists.
LocationArgs ==
    { [NoFilterArgs EXCEPT !.cities = c, !.states = st, !.countries = co,
                           !.facility_canonical_ids = f, !.study_ids = ids] :
        c \in {None, Some({}), Some({"Minneapolis"}),
               Some({"Minneapolis", "Burlington"})},
        st \in {None, Some({"Vermont"})},
        co \in {None, Some({"Germany"})},
        f \in {None, Some({1}), Some({2, 5})},
        ids \in {{}, 1..20} }

\* Calls with the enumerated filters.
EnumArgs ==
    { [NoFilterArgs EXCEPT !.overall_statuses = os, !.phases = ph,
                           !.study_types = ty, !.intervention_types = iv,
                           !.study_ids = ids] :
        os \in {None, Some({"RECRUITING"})},
        ph \in {None, Some({"PHASE_1", "PHASE_2"})},
        ty \in {None, Some({"OBSERVATIONAL"})},
        iv \in {None, Some({"DRUG"}), Some({"DRUG", "DEVICE"})},
        ids \in {{}, 1..20} }

\* Calls with the gender, year and age arguments.
AgeArgs ==
    { [NoFilterArgs EXCEPT !.gender = e.gender, !.year_beg = e.year_beg,
                           !.year_end = e.year_end, !.age_beg = e.age_beg,
                           !.age_end = e.age_end] :
        e \in EligibilityArgs }

\* Calls with ordering and paging.
PageArgs ==
    { [NoFilterArgs EXCEPT !.order_by = ob, !.order = o,
                           !.offset = off, !.limit = lim] :
        ob \in {None, Some(""), Some("studyId"), Some("start_date"),
                Some("bogus"), Some("facilitiesCanonical")},
        o \in {None, Some("ASC"), Some("DESC")},
        off \in OptPage, lim \in OptPage }

\* Calls of countStudiesByFacility with ordering and paging.
FacilityPageArgs ==
    { [NoFilterArgs EXCEPT !.order_by = ob, !.order = o,
                           !.offset = off, !.limit = lim] :
        ob \in {None, Some(""), Some("facilityCanonicalId"), Some("name"),
                Some("studies"), Some("bogus")},
        o \in {None, Some("ASC"), Some("DESC")},
        off \in OptPage, lim \in OptPage }

\* What a caller of countStudiesByFacility asks of the facility.
FacilityFieldsArgs ==
    { FacilityFieldsAbsent, FacilityFieldsNone, FacilityFieldsDict({}),
      FacilityFieldsDict({"name"}),
      FacilityFieldsDict({"facility_canonical_id", "name", "display"}) }

\* The study_ids / citation_ids lists of the aggregation calls.
OptStudyIds == { {}, StudyIds, 1..20, {4, 5} }

OptCitationIds == { {}, CitationIds, 1..7, {4} }

\* The calls of countStudiesByFacilityDescriptor and countStudiesByDescriptor.
DescriptorCountArgs ==
    { [study_ids |-> ids, facility_canonical_ids |-> f,
       mesh_term_type |-> t, limit |-> lim] :
        ids \in OptStudyIds, f \in {None, Some({1, 2})},
        t \in {None, Some("CONDITION")}, lim \in OptPage }

FilterArgs == GeoArgs \cup LocationArgs \cup EnumArgs \cup AgeArgs

-----------------------------------------------------------------------------
(* The application tables (fform.orm_app).  A user row is written as its   *)
(* auth0_user_id and a search row as its search_uuid, the two columns the  *)
(* upserts resolve conflicts on; user_searches is the set of its pairs and *)
(* search_descriptors the list of its rows, in the order of insertion.     *)

\* The UUIDs a client gives to its searches.
SearchUuids == {"s1"}

NoTables ==
    [users |-> {},
     searches |-> [search_uuid \in SearchUuids |-> None],
     user_searches |-> {},
     search_descriptors |-> <<>>]

\* The auth0_user_id column of the users table: the users that signed up.
StoredUsers == { <<"1", "2">>, <<"1", "2", "3">> }

-----------------------------------------------------------------------------
(* The state machine.                                                      *)

Init ==
    /\ tree_numbers \in Taxonomies
    /\ pc = "idle"
    /\ op = ""
    /\ req = <<>>
    /\ resp = <<>>
    /\ db = [NoTables EXCEPT !.users = StoredUsers]

\* studies { search(...) }
SearchStudies ==
    /\ pc = "idle"
    /\ \E mesh_descriptor_ids \in SUBSET Descriptors,
          args \in EligibilityArgs,
          do_include_children \in BOOLEAN :
        /\ req' = [mesh_descriptor_ids |-> mesh_descriptor_ids,
                   gender |-> args.gender,
                   year_beg |-> args.year_beg,
                   year_end |-> args.year_end,
                   age_beg |-> args.age_beg,
                   age_end |-> args.age_end,
                   do_include_children |-> do_include_children]
        /\ resp' = ResolveSearchStudies(req')
    /\ op' = "studies.search"
    /\ pc' = "done"
    /\ UNCHANGED <<tree_numbers, db>>

\* citations { search(...) }
SearchCitations ==
    /\ pc = "idle"
    /\ \E mesh_descriptor_ids \in SUBSET Descriptors,
          year_beg \in OptYears, year_end \in OptYears,
          do_include_children \in BOOLEAN :
        /\ req' = [mesh_descriptor_ids |-> mesh_descriptor_ids,
                   year_beg |-> year_beg,
                   year_end |-> year_end,
                   do_include_children |-> do_include_children]
        /\ resp' = ResolveSearchCitations(req')
    /\ op' = "citations.search"
    /\ pc' = "done"
    /\ UNCHANGED <<tree_numbers, db>>

\* studies { filter(...) }
FilterStudies ==
    /\ pc = "idle"
    /\ \E args \in FilterArgs \cup PageArgs, scan \in {"asc", "desc"} :
        /\ req' = args
        /\ resp' = ResolveFilter(args, scan)
    /\ op' = "studies.filter"
    /\ pc' = "done"
    /\ UNCHANGED <<tree_numbers, db>>

\* studies { count(...) }
CountStudies ==
    /\ pc = "idle"
    /\ \E args \in FilterArgs :
        /\ req' = args
        /\ resp' = ResolveCount(args)
    /\ op' = "studies.count"
    /\ pc' = "done"
    /\ UNCHANGED <<tree_numbers, db>>

\* studiesStats { countStudiesByFacility(...) }
CountStudiesByFacility ==
    /\ pc = "idle"
    /\ \E args \in GeoArgs \cup FacilityPageArgs,
          study_ids \in {{}, StudyIds, 1..20},
          mesh_descriptor_ids \in {None, Some({1, 2})},
          facility_fields \in FacilityFieldsArgs,
          scan \in {"asc", "desc"} :
        /\ \/ /\ mesh_descriptor_ids = None
              /\ facility_fields = FacilityFieldsDict({"name"})
              /\ study_ids # 1..20
           \/ /\ args = NoFilterArgs
              /\ scan = "asc"
        /\ req' = [args |-> [args EXCEPT !.study_ids = study_ids],
                   mesh_descriptor_ids |-> mesh_descriptor_ids,
                   facility_fields |-> facility_fields]
        /\ resp' = ResolveCountStudiesByFacility(
                        [args EXCEPT !.study_ids = study_ids],
                        mesh_descriptor_ids, facility_fields, scan)
    /\ op' = "studies_stats.count_studies_by_facility"
    /\ pc' = "done"
    /\ UNCHANGED <<tree_numbers, db>>

\* studiesStats { countStudiesByCountry(...) }
CountStudiesByCountry ==
    /\ pc = "idle"
    /\ \E study_ids \in OptStudyIds, limit \in OptPage,
          scan \in {"asc", "desc"} :
        /\ req' = [study_ids |-> study_ids, limit |-> limit]
        /\ resp' = ResolveCountStudiesByCountry(study_ids, limit, scan)
    /\ op' = "studies_stats.count_studies_by_country"
    /\ pc' = "done"
    /\ UNCHANGED <<tree_numbers, db>>

\* studiesStats { countStudiesByOverallStatus(...) }
CountStudiesByOverallStatus ==
    /\ pc = "idle"
    /\ \E study_ids \in OptStudyIds, limit \in OptPage,
          scan \in {"asc", "desc"} :
        /\ req' = [study_ids |-> study_ids, limit |-> limit]
        /\ resp' = ResolveCountStudiesByOverallStatus(study_ids, limit, scan)
    /\ op' = "studies_stats.count_studies_by_overall_status"
    /\ pc' = "done"
    /\ UNCHANGED <<tree_numbers, db>>

\* studiesStats { countStudiesByFacilityDescriptor(...) }
CountStudiesByFacilityDescriptor ==
    /\ pc = "idle"
    /\ \E args \in DescriptorCountArgs, scan \in {"asc", "desc"} :
        /\ req' = args
        /\ resp' = ResolveCountStudiesByFacilityDescriptor(args, scan)
    /\ op' = "studies_stats.count_studies_by_facility_descriptor"
    /\ pc' = "done"
    /\ UNCHANGED <<tree_numbers, db>>

\* studiesStats { countStudiesByDescriptor(...) }
CountStudiesByDescriptor ==
    /\ pc = "idle"
    /\ \E args \in DescriptorCountArgs, scan \in {"asc", "desc"} :
        /\ args.facility_canonical_ids = None
        /\ req' = args
        /\ resp' = ResolveCountStudiesByDescriptor(args, scan)
    /\ op' = "studies_stats.count_studies_by_descriptor"
    /\ pc' = "done"
    /\ UNCHANGED <<tree_numbers, db>>

\* citationsStats { countCitationsByCountry(...) }
CountCitationsByCountry ==
    /\ pc = "idle"
    /\ \E citation_ids \in OptCitationIds, limit \in OptPage,
          scan \in {"asc", "desc"} :
        /\ req' = [citation_ids |-> citation_ids, limit |-> limit]
        /\ resp' = ResolveCountCitationsByCountry(citation_ids, limit, scan)
    /\ op' = "citations_stats.count_citations_by_country"
    /\ pc' = "done"
    /\ UNCHANGED <<tree_numbers, db>>

\* citationsStats { countCitationsByAffiliation(...) }
CountCitationsByAffiliation ==
    /\ pc = "idle"
    /\ \E citation_ids \in OptCitationIds, limit \in OptPage,
          fields \in { FacilityFieldsAbsent, FacilityFieldsNone,
                       FacilityFieldsDict({"name", "display"}) },
          scan \in {"asc", "desc"} :
        /\ req' = [citation_ids |-> citation_ids, limit |-> limit,
                   fields |-> fields]
        /\ resp' = ResolveCountCitationsByAffiliation(citation_ids, fields,
                                                      limit, scan)
    /\ op' = "citations_stats.count_citations_by_affiliation"
    /\ pc' = "done"
    /\ UNCHANGED <<tree_numbers, db>>

\* citationsStats { countCitationsByQualifier(...) }
CountCitationsByQualifier ==
    /\ pc = "idle"
    /\ \E citation_ids \in OptCitationIds, limit \in OptPage,
          fields \in { FacilityFieldsAbsent, FacilityFieldsNone,
                       FacilityFieldsDict({"name", "qualifier_id"}) },
          scan \in {"asc", "desc"} :
        /\ req' = [citation_ids |-> citation_ids, limit |-> limit,
                   fields |-> fields]
        /\ resp' = ResolveCountCitationsByQualifier(citation_ids, fields,
                                                    limit, scan)
    /\ op' = "citations_stats.count_citations_by_qualifier"
    /\ pc' = "done"
    /\ UNCHANGED <<tree_numbers, db>>

\* schema_types: studyStats { countStudiesByCountry }
CountStudiesByCountryOfLocations ==
    /\ pc = "idle"
    /\ \E scan \in {"asc", "desc"} :
        /\ req' = [study_ids |-> {}, limit |-> None]
        /\ resp' = ResolveCountStudiesByCountryOfLocations(scan)
    /\ op' = "schema_types.count_studies_by_country"
    /\ pc' = "done"
    /\ UNCHANGED <<tree_numbers, db>>

\* A resolver plans the loading of the fields its query requests.
PlanStudyFields ==
    /\ pc = "idle"
    /\ \E fields \in FieldTrees :
        /\ WellFormedTree(fields)
        /\ req' = fields
        /\ resp' = ApplyRequestedFields(fields)
    /\ op' = "plan"
    /\ pc' = "done"
    /\ UNCHANGED <<tree_numbers, db>>

-----------------------------------------------------------------------------
(* extract_requested_fields of ffgraphql/utils.py.                         *)
(* A node of the query AST is a Field with a name and a selection set, or  *)
(* None, or a FragmentSpread with the name of a fragment.  The dictionary  *)
(* returned is written as the requested-field dicts of the planner: the    *)
(* paths of its keys, with the paths that hold an empty dict.              *)

Field(name, selection_set) ==
    [kind |-> "Field", name |-> name, selection_set |-> selection_set]

FragmentSpread(name) ==
    [kind |-> "FragmentSpread", name |-> name, selection_set |-> None]

\* info.fragments: the selections of the fragments the query defines.
Fragments ==
    [StudyParts |-> << Field("briefTitle", None),
                       Field("locations",
                             Some(<<Field("locationId", None)>>)) >>,
     StudyIdentity |-> << Field("studyId", None) >>,
     LocationParts |-> << Field("locationId", None) >>]

\* The nodes a selection set of the study is made of.
SelectionNodes ==
    { Field("studyId", None),
      Field("briefTitle", None),
      Field("interventions", Some(<<Field("name", None)>>)),
      FragmentSpread("StudyParts"),
      FragmentSpread("StudyIdentity"),
      Field("locations", Some(<<Field("status", None),
                                FragmentSpread("LocationParts")>>)) }

\* The selection sets of one to MaxSelections nodes, in any order.
SelectionSets ==
    UNION { [1..n -> SelectionNodes] : n \in 1..MaxSelections }

\* to_snake_case_plus: to_snake_case, then an underscore before every run
\* of digits; the names of the model hold no digit.
ToSnakeCasePlus(name) == ToSnakeCase(name)

\* result[key] = val, val being None or Some(dict).
SetItem(result, key, val) ==
    [paths |-> { p \in result.paths : p[1] # key } \cup { <<key>> }
               \cup (IF val = None THEN {}
                     ELSE { <<key>> \o p : p \in val[1].paths }),
     empty |-> { p \in result.empty : p[1] # key }
               \cup (IF val = None THEN {}
                     ELSE { <<key>> \o p : p \in val[1].empty }
                          \cup (IF val[1].paths = {} THEN { <<key>> }
                                ELSE {}))]

\* The value of `result` after the loop went through `fields`.  A Field
\* sets its key; a FragmentSpread rebinds result to the fragment's dict.
RECURSIVE ExtractRequestedFields(_)
ExtractRequestedFields(fields) ==
    IF fields = <<>>
    THEN [paths |-> {}, empty |-> {}]
    ELSE LET result == ExtractRequestedFields(
                            SubSeq(fields, 1, Len(fields) - 1))
             field == fields[Len(fields)]
             key == ToSnakeCasePlus(field.name)
         IN  IF field.kind = "Field"
             THEN SetItem(result, key,
                          IF field.selection_set = None
                          THEN None
                          ELSE Some(ExtractRequestedFields(
                                        field.selection_set[1])))
             ELSE ExtractRequestedFields(Fragments[field.name])

\* extract_requested_fields(info, info.field_asts) in the resolver of
\* studies { filter { ... } }.
ExtractFields ==
    /\ pc = "idle"
    /\ \E selections \in SelectionSets :
        /\ req' = [fields |-> <<Field("filter", Some(selections))>>]
        /\ resp' = ExtractRequestedFields(req'.fields)
    /\ op' = "utils.extract_requested_fields"
    /\ pc' = "done"
    /\ UNCHANGED <<tree_numbers, db>>

-----------------------------------------------------------------------------
(* Authorisation of the per-user resolvers (check_auth).                   *)
(* An Auth0 id and a token subject are strings, written as the sequences   *)
(* of their characters.                                                    *)

Auth0Prefix == <<"a", "u", "t", "h", "0", "|">>

\* The bare ids Auth0 gave to three users; the first is the beginning of the
\* second.
UserIds == { <<"1", "2">>, <<"1", "2", "3">>, <<"4", "5">> }

\* cfg.auth0.client_id, and the subject Auth0 gives to the token of that
\* client in service-to-service requests.
ClientId == <<"c", "9">>
ClientSubject == ClientId \o <<"@", "c", "l", "i", "e", "n", "t", "s">>

\* The `sub` of the token of a user.
SubjectOf(user_id) == Auth0Prefix \o user_id

\* The `sub` fields of the tokens the middleware lets through.
TokenSubjects == { SubjectOf(u) : u \in UserIds } \cup { ClientSubject }

\* The auth0_user_id argument: an id with or without its prefix, or the
\* empty string.
Auth0UserIdArgs == UserIds \cup { Auth0Prefix \o u : u \in UserIds } \cup { <<>> }

\* `sub in s` of two Python strings.
Contains(s, sub) ==
    \E i \in 0..(Len(s) - Len(sub)) : SubSeq(s, i + 1, i + Len(sub)) = sub

\* s.replace(old, new) for a non-empty old: every occurrence, from the left.
RECURSIVE Replace(_, _, _)
Replace(s, old, new) ==
    IF Len(s) < Len(old) THEN s
    ELSE IF StartsWith(s, old)
         THEN new \o Replace(SubSeq(s, Len(old) + 1, Len(s)), old, new)
         ELSE <<Head(s)>> \o Replace(Tail(s), old, new)

CleanAuth0UserId(auth0_user_id) ==
    IF StartsWith(auth0_user_id, Auth0Prefix)
    THEN Replace(auth0_user_id, Auth0Prefix, <<>>)
    ELSE auth0_user_id

\* TRUE when check_auth raises graphql.GraphQLError.
CheckAuthRaises(sub, auth0_user_id) ==
    /\ ~Contains(sub, auth0_user_id)
    /\ ~Contains(sub, ClientId)

\* users.by_auth0_id: clean the id, check the token, fetch the user.  The
\* requested fields only choose the columns loaded, not the record.
ResolveByAuth0Id(users, sub, auth0_user_id) ==
    LET cleaned == CleanAuth0UserId(auth0_user_id)
        obj     == { u \in users : u = cleaned }
    IN  IF CheckAuthRaises(sub, cleaned)
        THEN [raised |-> "GraphQLError: not authorized",
              auth0_user_id |-> cleaned, obj |-> None]
        ELSE IF obj = {}
        THEN [raised |-> "GraphQLError: not found",
              auth0_user_id |-> cleaned, obj |-> None]
        ELSE [raised |-> "", auth0_user_id |-> cleaned,
              obj |-> Some(CHOOSE u \in obj : TRUE)]

UserByAuth0Id ==
    /\ pc = "idle"
    /\ \E sub \in TokenSubjects, auth0_user_id \in Auth0UserIdArgs :
          /\ req' = [sub |-> sub, auth0_user_id |-> auth0_user_id]
          /\ resp' = ResolveByAuth0Id(db.users, sub, auth0_user_id)
    /\ op' = "users.by_auth0_id"
    /\ pc' = "done"
    /\ UNCHANGED <<tree_numbers, db>>

-----------------------------------------------------------------------------
(* MiddlewareAuth0 (ffgraphql/middlewares/auth0.py).                       *)
(* A header value is the sequence of its words and of the blanks between   *)
(* them; a path is the sequence of its characters.                         *)

\* The access tokens a request may carry: whether the JOSE header can be
\* read, the `kid` it names if any, and what jwt.decode makes of the token
\* once the key is found.
Tokens ==
    [garbage  |-> [readable |-> FALSE, kid |-> None, decode |-> "invalid"],
     nokid    |-> [readable |-> TRUE, kid |-> None, decode |-> "valid"],
     otherkid |-> [readable |-> TRUE, kid |-> Some("k2"), decode |-> "valid"],
     expired  |-> [readable |-> TRUE, kid |-> Some("k1"),
                   decode |-> "expired"],
     forged   |-> [readable |-> TRUE, kid |-> Some("k1"),
                   decode |-> "invalid"],
     good     |-> [readable |-> TRUE, kid |-> Some("k1"), decode |-> "valid"]]

\* The `kid` of the keys of self.jwks.
JwksKids == {"k1"}

\* self.exclude, and re.match(exclusion, path) for patterns that are
\* literal: a match at the beginning of the path.
IsPathExcluded(path) ==
    \E exclusion \in { <<"/", "s">> } : StartsWith(path, exclusion)

\* MiddlewareCors.is_req_cors
IsReqCors(request) ==
    /\ request.method = "OPTIONS"
    /\ request.access_control_request_method # None

\* str.split(): the words of the value.
Split(auth) == SelectSeq(auth, LAMBDA word : word # " ")

\* What _get_token raises, "" when it returns parts[1].
GetTokenRaised(auth) ==
    CASE auth = None \/ auth = Some(<<>>) -> "HTTP 401"
      [] auth # None /\ auth # Some(<<>>) /\ Split(auth[1]) = <<>> ->
            "IndexError"
      [] OTHER ->
            LET parts == Split(auth[1])
            IN  IF \/ parts[1] \notin {"Bearer", "bearer", "BEARER"}
                   \/ Len(parts) = 1
                   \/ Len(parts) > 2
                THEN "HTTP 401"
                ELSE ""

\* What validating the token raises, "" when the payload was decoded.
ValidateTokenRaised(token) ==
    CASE ~Tokens[token].readable -> "HTTP 401"
      [] Tokens[token].readable /\ Tokens[token].kid = None -> "KeyError"
      [] Tokens[token].readable /\ Tokens[token].kid # None
         /\ Tokens[token].kid[1] \notin JwksKids -> "HTTP 401"
      [] OTHER -> IF Tokens[token].decode = "valid" THEN "" ELSE "HTTP 401"

\* process_request: what it raises and what it leaves in req.context.
MiddlewareProcessRequest(request) ==
    LET raised ==
            CASE IsReqCors(request) \/ IsPathExcluded(request.path) -> ""
              [] OTHER ->
                    IF GetTokenRaised(request.authorization) # ""
                    THEN GetTokenRaised(request.authorization)
                    ELSE ValidateTokenRaised(
                             Split(request.authorization[1])[2])
        checked == ~IsReqCors(request) /\ ~IsPathExcluded(request.path)
    IN  [raised |-> raised,
         context |-> IF checked /\ raised = ""
                     THEN [token |->
                               Some(Split(request.authorization[1])[2]),
                           token_payload |->
                               Some(Split(request.authorization[1])[2])]
                     ELSE [token |-> None, token_payload |-> None]]

\* The requests the middleware sees.
Requests ==
    [method : {"POST", "OPTIONS"},
     access_control_request_method : {None, Some("POST")},
     path : { <<"/", "g">>, <<"/", "s", "x">> },
     authorization :
        {None, Some(<<>>), Some(<<" ">>), Some(<<"Basic", " ", "good">>),
         Some(<<"Bearer">>), Some(<<"Bearer", " ", "good", " ", "good">>)}
        \cup { Some(<<"Bearer", " ", t>>) : t \in DOMAIN Tokens }
        \cup { Some(<<"bearer", " ", " ", "good">>) }]

ProcessRequest ==
    /\ pc = "idle"
    /\ \E request \in Requests :
        /\ req' = request
        /\ resp' = MiddlewareProcessRequest(request)
    /\ op' = "auth0.process_request"
    /\ pc' = "done"
    /\ UNCHANGED <<tree_numbers, db>>

-----------------------------------------------------------------------------
(* The mutations on users and searches, and searches.by_search_uuid.       *)
(* Each operator gives what the call raises, the tables it leaves and the  *)
(* object it returns.                                                      *)

\* get_user: the row whose auth0_user_id equals the id given.
GetUser(users, auth0_user_id) ==
    IF auth0_user_id \in users THEN Some(auth0_user_id) ELSE None

Outcome(raised, tables, obj) ==
    [raised |-> raised, tables |-> tables, obj |-> obj]

\* MutationUserUpsert.mutate: the id is cleaned for the check and for the
\* retrieval; the INSERT ... ON CONFLICT DO NOTHING takes user.auth0_user_id
\* as it was given.
UpsertUser(tables, sub, auth0_user_id) ==
    LET cleaned == CleanAuth0UserId(auth0_user_id)
        users == tables.users \cup {auth0_user_id}
    IN  IF CheckAuthRaises(sub, cleaned)
        THEN Outcome("GraphQLError: not authorized", tables, None)
        ELSE Outcome("", [tables EXCEPT !.users = users],
                     GetUser(users, cleaned))

\* delete_search_descriptors
DeleteSearchDescriptors(search_descriptors, search_id) ==
    SelectSeq(search_descriptors, LAMBDA row : row[1] # search_id)

\* An INSERT that adds its row whether or not the table holds it.
InsertSearchDescriptorAlways(search_descriptors, search_id, descriptor_id) ==
    Append(search_descriptors, <<search_id, descriptor_id>>)

\* INSERT INTO search_descriptors ... ON CONFLICT DO NOTHING: the row is
\* added unless the table holds it.
InsertSearchDescriptor(search_descriptors, search_id, descriptor_id) ==
    IF \E k \in DOMAIN search_descriptors :
           search_descriptors[k] = <<search_id, descriptor_id>>
    THEN search_descriptors
    ELSE Append(search_descriptors, <<search_id, descriptor_id>>)

\* for mesh_descriptor_id in mesh_descriptor_ids: insert the row.
RECURSIVE InsertSearchDescriptors(_, _, _)
InsertSearchDescriptors(search_descriptors, search_id, mesh_descriptor_ids) ==
    IF mesh_descriptor_ids = <<>>
    THEN search_descriptors
    ELSE InsertSearchDescriptors(
             InsertSearchDescriptor(search_descriptors, search_id,
                                    Head(mesh_descriptor_ids)),
             search_id, Tail(mesh_descriptor_ids))

\* MutationSearchUpsert.mutate.  A call without mesh_descriptor_ids has no
\* list to iterate over and ends in a TypeError with nothing committed.
UpsertSearch(tables, sub, auth0_user_id, search, mesh_descriptor_ids) ==
    LET cleaned == CleanAuth0UserId(auth0_user_id)
        user == GetUser(tables.users, cleaned)
        uuid == search.search_uuid
        searches ==
            IF tables.searches[uuid] = None
            THEN [tables.searches EXCEPT ![uuid] = Some(search)]
            ELSE tables.searches
        ids == mesh_descriptor_ids[1]
    IN  CASE mesh_descriptor_ids = None -> Outcome("TypeError", tables, None)
          [] mesh_descriptor_ids # None /\ CheckAuthRaises(sub, cleaned) ->
                Outcome("GraphQLError: not authorized", tables, None)
          [] mesh_descriptor_ids # None /\ ~CheckAuthRaises(sub, cleaned)
             /\ user = None ->
                Outcome("GraphQLError: user not found", tables, None)
          [] OTHER ->
                Outcome("",
                    [users |-> tables.users,
                     searches |-> searches,
                     user_searches |->
                        tables.user_searches \cup {<<user[1], uuid>>},
                     search_descriptors |->
                        InsertSearchDescriptors(
                            DeleteSearchDescriptors(
                                tables.search_descriptors, uuid),
                            uuid, ids)],
                    searches[uuid])

\* MutationSearchDelete.mutate, with delete_search.
DeleteSearch(tables, sub, auth0_user_id, search_uuid) ==
    LET cleaned == CleanAuth0UserId(auth0_user_id)
    IN  CASE CheckAuthRaises(sub, cleaned) ->
                Outcome("GraphQLError: not authorized", tables, None)
          [] ~CheckAuthRaises(sub, cleaned)
             /\ GetUser(tables.users, cleaned) = None ->
                Outcome("GraphQLError: user not found", tables, None)
          [] ~CheckAuthRaises(sub, cleaned)
             /\ GetUser(tables.users, cleaned) # None
             /\ tables.searches[search_uuid] = None ->
                Outcome("GraphQLError: search not found", tables, None)
          [] OTHER ->
                Outcome("",
                    [users |-> tables.users,
                     searches |->
                        [tables.searches EXCEPT ![search_uuid] = None],
                     user_searches |->
                        { row \in tables.user_searches :
                            row[2] # search_uuid },
                     search_descriptors |->
                        DeleteSearchDescriptors(tables.search_descriptors,
                                                search_uuid)],
                    tables.searches[search_uuid])

\* TypeSearches.resolve_by_search_uuid
ResolveBySearchUuid(tables, sub, auth0_user_id, search_uuid) ==
    LET cleaned == CleanAuth0UserId(auth0_user_id)
    IN  CASE CheckAuthRaises(sub, cleaned) ->
                Outcome("GraphQLError: not authorized", tables, None)
          [] ~CheckAuthRaises(sub, cleaned)
             /\ tables.searches[search_uuid] = None ->
                Outcome("GraphQLError: search not found", tables, None)
          [] OTHER -> Outcome("", tables, tables.searches[search_uuid])

\* The callers of the application and the ids they name: two users, the
\* id of the first with and without its prefix.
AppUsers == { <<"1", "2">>, <<"4", "5">> }

AppUserIdArgs == AppUsers \cup { Auth0Prefix \o <<"1", "2">> }

\* The InputSearch values of the calls.
SearchInputs ==
    { [search_uuid |-> uuid, title |-> "first", gender |-> Some("FEMALE"),
       year_beg |-> Some(2000), year_end |-> Some(2010),
       age_beg |-> Some(1), age_end |-> Some(2)] : uuid \in SearchUuids }
    \cup
    { [search_uuid |-> uuid, title |-> "second", gender |-> None,
       year_beg |-> None, year_end |-> Some(2020),
       age_beg |-> None, age_end |-> Some(3)] : uuid \in SearchUuids }

\* The mesh_descriptor_ids lists of the calls, one with a repeated id.
MeshDescriptorIdLists == {None, Some(<<>>), Some(<<1>>), Some(<<2, 1, 2>>)}

\* mutation { upsertUser(user: {...}) }
UserUpsert ==
    /\ pc = "idle"
    /\ \E u \in AppUsers, auth0_user_id \in AppUserIdArgs :
        /\ req' = [sub |-> SubjectOf(u), auth0_user_id |-> auth0_user_id]
        /\ LET outcome == UpsertUser(db, SubjectOf(u), auth0_user_id)
           IN  /\ resp' = [raised |-> outcome.raised, obj |-> outcome.obj]
               /\ db' = outcome.tables
    /\ op' = "mutations.upsert_user"
    /\ pc' = "done"
    /\ UNCHANGED tree_numbers

\* mutation { upsertSearch(...) }
SearchUpsert ==
    /\ pc = "idle"
    /\ \E u \in AppUsers, auth0_user_id \in AppUserIdArgs,
          search \in SearchInputs,
          mesh_descriptor_ids \in MeshDescriptorIdLists :
        /\ req' = [sub |-> SubjectOf(u), auth0_user_id |-> auth0_user_id,
                   search |-> search,
                   mesh_descriptor_ids |-> mesh_descriptor_ids]
        /\ LET outcome == UpsertSearch(db, SubjectOf(u), auth0_user_id,
                                       search, mesh_descriptor_ids)
               kept == DeleteSearchDescriptors(db.search_descriptors,
                                               search.search_uuid)
           IN  /\ resp' = [raised |-> outcome.raised, obj |-> outcome.obj,
                           rows_deleted |->
                               IF outcome.raised = ""
                               THEN Len(db.search_descriptors) - Len(kept)
                               ELSE 0]
               /\ db' = outcome.tables
    /\ op' = "mutations.upsert_search"
    /\ pc' = "done"
    /\ UNCHANGED tree_numbers

\* mutation { deleteSearch(...) }
SearchDelete ==
    /\ pc = "idle"
    /\ \E u \in AppUsers, auth0_user_id \in AppUserIdArgs,
          search_uuid \in SearchUuids :
        /\ req' = [sub |-> SubjectOf(u), auth0_user_id |-> auth0_user_id,
                   search_uuid |-> search_uuid]
        /\ LET outcome == DeleteSearch(db, SubjectOf(u), auth0_user_id,
                                       search_uuid)
           IN  /\ resp' = [raised |-> outcome.raised, obj |-> outcome.obj]
               /\ db' = outcome.tables
    /\ op' = "mutations.delete_search"
    /\ pc' = "done"
    /\ UNCHANGED tree_numbers

\* searches { bySearchUuid(...) }
SearchByUuid ==
    /\ pc = "idle"
    /\ \E u \in AppUsers, auth0_user_id \in AppUserIdArgs,
          search_uuid \in SearchUuids :
        /\ req' = [sub |-> SubjectOf(u), auth0_user_id |-> auth0_user_id,
                   search_uuid |-> search_uuid]
        /\ LET outcome == ResolveBySearchUuid(db, SubjectOf(u),
                                              auth0_user_id, search_uuid)
           IN  /\ resp' = [raised |-> outcome.raised, obj |-> outcome.obj]
               /\ db' = outcome.tables
    /\ op' = "searches.by_search_uuid"
    /\ pc' = "done"
    /\ UNCHANGED tree_numbers

\* The response was sent; everything request-scoped is dropped.
Discard ==
    /\ pc = "done"
    /\ pc' = "idle"
    /\ op' = ""
    /\ req' = <<>>
    /\ resp' = <<>>
    /\ UNCHANGED <<tree_numbers, db>>

Next ==
    \/ SearchStudies
    \/ SearchCitations
    \/ FilterStudies
    \/ CountStudies
    \/ CountStudiesByFacility
    \/ CountStudiesByCountry
    \/ CountStudiesByOverallStatus
    \/ CountStudiesByFacilityDescriptor
    \/ CountStudiesByDescriptor
    \/ CountCitationsByCountry
    \/ CountCitationsByAffiliation
    \/ CountCitationsByQualifier
    \/ CountStudiesByCountryOfLocations
    \/ PlanStudyFields
    \/ UserByAuth0Id
    \/ ExtractFields
    \/ ProcessRequest
    \/ Discard

Spec == Init /\ [][Next]_vars

\* The application starts with empty tables; its users sign up and keep
\* searches.
InitApp ==
    /\ tree_numbers = CHOOSE taxonomy \in Taxonomies : TRUE
    /\ pc = "idle"
    /\ op = ""
    /\ req = <<>>
    /\ resp = <<>>
    /\ db = NoTables

NextApp ==
    \/ UserUpsert
    \/ SearchUpsert
    \/ SearchDelete
    \/ SearchByUuid
    \/ UserByAuth0Id
    \/ Discard

SpecApp == InitApp /\ [][NextApp]_vars

-----------------------------------------------------------------------------
(* Properties of the descriptor closure and of search.                     *)

IsSearch == pc = "done" /\ op \in {"studies.search", "citations.search"}

\* The call supplied nothing but descriptor ids.
OnlyDescriptorIds ==
    /\ req.year_beg = None
    /\ req.year_end = None
    /\ op = "studies.search" =>
          (req.gender = None /\ req.age_beg = None /\ req.age_end = None)

\* tree number tn equals path or extends it by whole segments.
SegmentPrefix(path, tn) ==
    \/ tn = path
    \/ StartsWith(tn, path \o <<".">>)

\* C1: with do_include_children, a descriptor is in the closure of a root
\* only if it is the root or one of its tree numbers equals a tree number of
\* the root or extends it at a '.' boundary.
C1_ClosureOnSegmentBoundaries ==
    (IsSearch /\ req.do_include_children) =>
        \A root \in DOMAIN resp.map_descriptor_children :
            \A node \in resp.map_descriptor_children[root] :
                \/ node = root
                \/ \E tn \in tree_numbers[node], path \in tree_numbers[root] :
                      SegmentPrefix(path, tn)

\* What the closure of a supplied root can hold: the set the search built
\* for it or, for a root the search built nothing for, at most the root.
ClosureOfRoot(root) ==
    IF root \in DOMAIN resp.map_descriptor_children
    THEN resp.map_descriptor_children[root]
    ELSE {root}

SearchedTable == IF op = "studies.search" THEN Studies ELSE Citations

\* C2: with several root ids and nothing else supplied, the entities
\* returned are exactly those whose descriptors meet the closure of every
\* supplied root.
C2_AndAcrossRootsOrWithin ==
    (IsSearch /\ OnlyDescriptorIds
     /\ Cardinality(req.mesh_descriptor_ids) >= 2) =>
        /\ resp.raised = ""
        /\ resp.rows =
              { i \in DOMAIN SearchedTable :
                  \A root \in req.mesh_descriptor_ids :
                      SearchedTable[i].descriptors \cap ClosureOfRoot(root)
                          # {} }

\* C3: a root without tree numbers among the supplied ids raises nothing and
\* matches nothing, so that nothing is returned.
C3_UnknownRootMatchesNothing ==
    (/\ IsSearch
     /\ OnlyDescriptorIds
     /\ req.do_include_children
     /\ \E root \in req.mesh_descriptor_ids : tree_numbers[root] = {}) =>
        /\ resp.raised = ""
        /\ resp.rows = {}

\* C4: the closure map has a key for every supplied root and every root is
\* in its own closure.
C4_ClosureMapReflexive ==
    IsSearch =>
        \A root \in req.mesh_descriptor_ids :
            /\ resp.stage # "no_tree_numbers"
            /\ root \in DOMAIN resp.map_descriptor_children
            /\ root \in resp.map_descriptor_children[root]

-----------------------------------------------------------------------------
(* Properties of the filters of filter, count and countStudiesByFacility.  *)

ByFacility == "studies_stats.count_studies_by_facility"

IsFilterOrCount ==
    pc = "done" /\ op \in {"studies.filter", "studies.count", ByFacility}

\* The filter arguments of the call.
RequestArgs == IF op = ByFacility THEN req.args ELSE req

\* All three geospatial arguments were supplied, whatever their values.
GeoSupplied(args) ==
    /\ args.current_location_longitude # None
    /\ args.current_location_latitude # None
    /\ args.distance_max_km # None

\* Some but not all of the geospatial arguments were supplied.
GeoSubsetSupplied(args) ==
    /\ ~GeoSupplied(args)
    /\ \/ args.current_location_longitude # None
       \/ args.current_location_latitude # None
       \/ args.distance_max_km # None

\* The facility lies within distance_max_km of the supplied point.
WithinDistance(f, args) ==
    /\ f.coordinates # None
    /\ DistanceSphere(args.current_location_longitude[1],
                      args.current_location_latitude[1], f.coordinates[1])
          <= args.distance_max_km[1] * 1000

\* C5: the distance predicate is applied if and only if longitude, latitude
\* and distance_max_km are all three supplied, whatever their values, so
\* that every study filter then returns has a facility within the distance;
\* a subset of the three applies no predicate and raises nothing.
C5_GeoFilterIffAllThreeSupplied ==
    IsFilterOrCount =>
        /\ resp.geo_filter = GeoSupplied(RequestArgs)
        /\ GeoSubsetSupplied(RequestArgs) => resp.raised = ""
        /\ (op = "studies.filter" /\ GeoSupplied(RequestArgs)) =>
              \A k \in DOMAIN resp.rows :
                  \E f \in Studies[resp.rows[k]].facilities_canonical :
                      WithinDistance(FacilitiesCanonical[f], RequestArgs)

-----------------------------------------------------------------------------
(* Properties of the eligibility-age filter.                               *)

IsAgeFiltered ==
    /\ pc = "done"
    /\ op \in {"studies.search", "studies.filter", "studies.count"}

\* Nothing of gender, years and ages but the ages was supplied.
OnlyAges == req.gender = None /\ req.year_beg = None /\ req.year_end = None

ExactlyOneAge == (req.age_beg = None) # (req.age_end = None)

\* The one-sided constraint of a call with only age_beg or only age_end: an
\* unknown bound of the study passes.
OneSidedAge(eligibility) ==
    IF req.age_end = None
    THEN \/ eligibility.maximum_age = None
         \/ eligibility.maximum_age[1] >= req.age_beg[1] * SecondsPerYear
    ELSE \/ eligibility.minimum_age = None
         \/ eligibility.minimum_age[1] <= req.age_end[1] * SecondsPerYear

\* The studies with an eligibility row.
WithEligibility == { i \in StudyIds : Studies[i].eligibility # None }

\* The studies a search or a filter returned.
ReturnedStudies ==
    IF op = "studies.search"
    THEN resp.rows
    ELSE { resp.rows[k] : k \in DOMAIN resp.rows }

\* C6: with exactly one of age_beg and age_end supplied the resolver raises
\* nothing and keeps the studies that meet the one-sided constraint: every
\* study returned meets it, and filter with nothing but the age returns
\* every study with an eligibility row that meets it.
C6_OneSidedAgeFilter ==
    (IsAgeFiltered /\ ExactlyOneAge) =>
        /\ resp.raised = ""
        /\ op # "studies.count" =>
              \A i \in ReturnedStudies :
                  /\ i \in WithEligibility
                  /\ OneSidedAge(Studies[i].eligibility[1])
        /\ (op = "studies.filter" /\ OnlyAges) =>
              \A i \in WithEligibility :
                  OneSidedAge(Studies[i].eligibility[1])
                      => i \in ReturnedStudies

\* The studies whose eligibility row has both age bounds.
KnownBounds ==
    { i \in WithEligibility :
        /\ Studies[i].eligibility[1].minimum_age # None
        /\ Studies[i].eligibility[1].maximum_age # None }

\* max(age_beg, min_age) <= min(age_end, max_age), in seconds.
ClosedOverlap(eligibility) ==
    Max(req.age_beg[1] * SecondsPerYear, eligibility.minimum_age[1])
        <= Min(req.age_end[1] * SecondsPerYear, eligibility.maximum_age[1])

\* What the call returns when the ages are left out of it.
ReturnedWithoutAges ==
    IF op = "studies.search"
    THEN SearchStudiesRows(resp.map_descriptor_children,
                           [req EXCEPT !.age_beg = None, !.age_end = None])
    ELSE StudyIds

\* C7: with age_beg and age_end both supplied, a study with known bounds
\* [min_age, max_age] is kept exactly when max(age_beg, min_age) <=
\* min(age_end, max_age), both intervals closed.
C7_ClosedIntervalOverlap ==
    (/\ pc = "done"
     /\ \/ op = "studies.search" /\ resp.stage = "query"
        \/ op = "studies.filter"
     /\ OnlyAges
     /\ req.age_beg # None
     /\ req.age_end # None) =>
        /\ resp.raised = ""
        /\ ReturnedStudies \cap KnownBounds =
              { i \in ReturnedWithoutAges \cap KnownBounds :
                  ClosedOverlap(Studies[i].eligibility[1]) }

-----------------------------------------------------------------------------
(* Properties of the load plan.                                            *)

\* The planner returned the options of a requested-field dict.
IsPlanned == pc = "done" /\ op = "plan" /\ resp.raised = ""

\* The ORM class a chain of relationship names leads to from Study, "" when
\* the names are no such chain.
RECURSIVE ClassOfPath(_)
ClassOfPath(path) ==
    IF path = <<>>
    THEN "Study"
    ELSE LET parent == ClassOfPath(SubSeq(path, 1, Len(path) - 1))
         IN  IF parent # "" /\ path[Len(path)] \in DOMAIN Relationships[parent]
             THEN Relationships[parent][path[Len(path)]]
             ELSE ""

\* The relation paths of a requested-field dict.
RelationPaths(fields) == { p \in fields.paths : ClassOfPath(p) # "" }

\* Every load_only of the returned options, with the path it applies to.
PlanSteps ==
    UNION { { resp.options[k][j] : j \in DOMAIN resp.options[k] } :
            k \in DOMAIN resp.options }

\* The requested names under `path` that are columns of its class.
RequestedColumns(fields, path) ==
    KeysAt(fields, path) \cap Columns[ClassOfPath(path)]

WithoutSubFields(fields) ==
    { p \in RelationPaths(fields) : KeysAt(fields, p) = {} }

\* C9: a relation requested with None or with the empty dict raises nothing
\* and gets a nested load that names no column beyond the primary key.
C9_RelationWithoutSubFields ==
    (pc = "done" /\ op = "plan" /\ WithoutSubFields(req) # {}) =>
        /\ resp.raised = ""
        /\ \A p \in WithoutSubFields(req) :
              \E step \in PlanSteps :
                  /\ step.path = p
                  /\ step.load_only \subseteq {PrimaryKey[ClassOfPath(p)]}

\* The requested relation paths with no relation requested below them.
LeafRelationPaths(fields) ==
    { p \in RelationPaths(fields) :
        \A q \in RelationPaths(fields) : q = p \/ ~IsPrefix(p, q) }

\* The path an option chain ends at.
EndOf(option) == option[Len(option)].path

KnownName(class, key) ==
    key \in Columns[class] \cup DOMAIN Relationships[class]

\* Every name along the path is a column or a relationship of the class it
\* is requested of.
KnownPath(q) ==
    \A n \in 1..Len(q) :
        /\ ClassOfPath(SubSeq(q, 1, n - 1)) # ""
        /\ KnownName(ClassOfPath(SubSeq(q, 1, n - 1)), q[n])

\* The requested fields without the names that are neither; a dict that
\* loses all its keys stays a dict.
WithoutUnknownNames(fields) ==
    LET paths == { q \in fields.paths : KnownPath(q) }
    IN  [paths |-> paths,
         empty |-> { q \in paths :
                       /\ ~IsNoneAt(fields, q)
                       /\ \A r \in paths :
                             r = q \/ ~IsPrefix(q, r) }]

\* C11: a requested name, at any level, that is neither a column nor a
\* relationship of its class is in no load_only and on no joined path, and
\* the planner raises and returns what it does for the same fields without
\* that name.
C11_UnknownNamesDropped ==
    (pc = "done" /\ op = "plan") =>
        /\ resp = ApplyRequestedFields(WithoutUnknownNames(req))
        /\ \A step \in PlanSteps :
              /\ KnownPath(step.path)
              /\ \A key \in step.load_only :
                    KnownPath(Append(step.path, key))

\* A plan of fields that hold such names at the root, with keys below one,
\* and under a relationship.
C11_Witness ==
    /\ IsPlanned
    /\ { <<"display", "text">>, <<"locations", "display">>,
         <<"locations", "facility", "name">>, <<"brief_title">> }
          \subseteq req.paths
    /\ Len(resp.options) >= 1

-----------------------------------------------------------------------------
(* Properties of the aggregations.                                         *)

ByCountry == "studies_stats.count_studies_by_country"

ByOverallStatus == "studies_stats.count_studies_by_overall_status"

ByFacilityDescriptor == "studies_stats.count_studies_by_facility_descriptor"

ByDescriptor == "studies_stats.count_studies_by_descriptor"

CitationsByCountry == "citations_stats.count_citations_by_country"

CitationsByAffiliation == "citations_stats.count_citations_by_affiliation"

CitationsByQualifier == "citations_stats.count_citations_by_qualifier"

ByCountryOfLocations == "schema_types.count_studies_by_country"

\* An aggregation returned its rows.
IsAggregated ==
    /\ pc = "done"
    /\ op \in { ByCountry, ByOverallStatus, ByFacilityDescriptor,
                ByDescriptor, CitationsByCountry, CitationsByAffiliation,
                CitationsByQualifier, ByCountryOfLocations }
    /\ resp.raised = ""

\* The root entities of the call that belong to the group of `key`, read off
\* the tables.
GroupEntities(key) ==
    CASE op = ByCountry ->
            { i \in SelectedStudies(req.study_ids) :
                \E f \in Studies[i].facilities_canonical :
                    FacilitiesCanonical[f].country = key }
      [] op = ByOverallStatus ->
            { i \in SelectedStudies(req.study_ids) :
                Studies[i].overall_status = key }
      [] op = ByFacilityDescriptor ->
            { i \in SelectedStudies(req.study_ids) :
                /\ key[1] \in Studies[i].facilities_canonical
                /\ key[2] \in TypedDescriptors(i, req.mesh_term_type) }
      [] op = ByDescriptor ->
            { i \in SelectedStudies(req.study_ids) :
                key \in TypedDescriptors(i, req.mesh_term_type) }
      [] op = CitationsByCountry ->
            { i \in SelectedCitations(req.citation_ids) :
                \E row \in AffiliationsOf(i) :
                    AffiliationsCanonical[row[2]].country = key }
      [] op = CitationsByAffiliation ->
            { i \in SelectedCitations(req.citation_ids) :
                \E row \in AffiliationsOf(i) : row[2] = key }
      [] op = CitationsByQualifier ->
            { i \in SelectedCitations(req.citation_ids) :
                \E row \in Citations[i].qualifiers : row[2] = key }
      [] OTHER ->
            { i \in StudyIds :
                \E row \in Studies[i].locations :
                    Facilities[row[2]].country = key }

\* C12: the count of every row of an aggregation is the number of distinct
\* root entities in its group, not the number of joined rows.
C12_CountsDistinctEntities ==
    IsAggregated =>
        \A k \in DOMAIN resp.rows :
            resp.rows[k].count
                = Cardinality(GroupEntities(resp.rows[k].key))

\* The rows the same call returns without its limit, for a given order of
\* the groups of equal count.
CompleteAggregation(scan) ==
    CASE op = ByCountry ->
            ResolveCountStudiesByCountry(req.study_ids, None, scan).rows
      [] op = ByOverallStatus ->
            ResolveCountStudiesByOverallStatus(req.study_ids, None,
                                               scan).rows
      [] op = ByFacilityDescriptor ->
            ResolveCountStudiesByFacilityDescriptor(
                [req EXCEPT !.limit = None], scan).rows
      [] op = ByDescriptor ->
            ResolveCountStudiesByDescriptor(
                [req EXCEPT !.limit = None], scan).rows
      [] op = CitationsByCountry ->
            ResolveCountCitationsByCountry(req.citation_ids, None, scan).rows
      [] op = CitationsByAffiliation ->
            ResolveCountCitationsByAffiliation(req.citation_ids, req.fields,
                                               None, scan).rows
      [] op = CitationsByQualifier ->
            ResolveCountCitationsByQualifier(req.citation_ids, req.fields,
                                             None, scan).rows
      [] OTHER -> ResolveCountStudiesByCountryOfLocations(scan).rows

\* The first n elements of a list.
FirstRows(rows, n) == SubSeq(rows, 1, Min(n, Len(rows)))

\* C13: the rows of an aggregation are in non-increasing order of count, and
\* with limit n they are the first n rows of the complete ordered result.
C13_OrderedByCountThenLimited ==
    IsAggregated =>
        /\ \A k \in 1..(Len(resp.rows) - 1) :
              resp.rows[k].count >= resp.rows[k + 1].count
        /\ req.limit # None =>
              \E scan \in {"asc", "desc"} :
                  resp.rows = FirstRows(CompleteAggregation(scan),
                                        req.limit[1])

-----------------------------------------------------------------------------
(* Properties of ordering and paging in filter.                            *)

\* list[offset : offset + limit], a bound left out being no bound.
Slice(list, offset, limit) ==
    LET from == IF offset = None THEN 0 ELSE offset[1]
        to == IF limit = None
              THEN Len(list)
              ELSE Min(from + limit[1], Len(list))
    IN  SubSeq(list, from + 1, to)

\* C19: filter returns the slice [offset, offset + limit) of the list the
\* same call returns without offset and limit.
C19_PageIsSliceOfFilteredList ==
    (pc = "done" /\ op = "studies.filter" /\ resp.raised = "") =>
        \E scan \in {"asc", "desc"} :
            resp.rows =
                Slice(ResolveFilter([req EXCEPT !.offset = None,
                                                !.limit = None], scan).rows,
                      req.offset, req.limit)

\* The scalar columns of the entity the call orders.
OrderColumns ==
    IF op = ByFacility
    THEN {"facility_canonical_id", "name"}
    ELSE {"study_id", "start_date"}

\* C14: in filter and countStudiesByFacility an order_by that names no
\* scalar column of the ordered entity fails the request with an error and
\* returns no rows.
C14_OrderByNamesScalarColumn ==
    (/\ pc = "done"
     /\ op \in {"studies.filter", ByFacility}
     /\ RequestArgs.order_by # None
     /\ ToSnakeCase(RequestArgs.order_by[1]) \notin OrderColumns) =>
        /\ resp.raised # ""
        /\ resp.rows = <<>>

-----------------------------------------------------------------------------
(* Properties of the location filters.                                     *)

\* The facility is in one of the supplied location lists.
InSomeLocationList(f, args) ==
    \/ TruthyList(args.cities) /\ InList(f.locality, args.cities[1])
    \/ /\ TruthyList(args.states)
       /\ InList(f.administrative_area_level_1, args.states[1])
    \/ TruthyList(args.countries) /\ InList(f.country, args.countries[1])
    \/ /\ TruthyList(args.facility_canonical_ids)
       /\ f.facility_canonical_id \in args.facility_canonical_ids[1]

\* C15: with location parameters supplied, a study matches if one of its
\* facilities has its city, region or country in the respective list or its
\* canonical id in the id list; a facility in the id list is enough when its
\* city is not in the city list.
C15_LocationListsAreAlternatives ==
    (/\ pc = "done"
     /\ op = "studies.filter"
     /\ req \in LocationArgs
     /\ LocationSupplied(req)) =>
        /\ resp.raised = ""
        /\ \A i \in SelectedStudies(req.study_ids) :
              (\E f \in Studies[i].facilities_canonical :
                  InSomeLocationList(FacilitiesCanonical[f], req))
                  => i \in ReturnedStudies

-----------------------------------------------------------------------------
(* Properties of unknown eligibility ages.                                 *)

\* An age in seconds beyond every age of the tables and of the calls.
FarAge == (MaxAge + 4) * SecondsPerYear

\* The studies whose eligibility row lacks a bound.
MissingBound ==
    { i \in WithEligibility :
        \/ Studies[i].eligibility[1].minimum_age = None
        \/ Studies[i].eligibility[1].maximum_age = None }

\* The range of the row with a missing bound moved beyond every age.
RangeUnbounded(eligibility) ==
    Int8Range(IF eligibility.minimum_age = None
              THEN Some(-FarAge)
              ELSE eligibility.minimum_age,
              IF eligibility.maximum_age = None
              THEN Some(FarAge)
              ELSE eligibility.maximum_age)

-----------------------------------------------------------------------------
(* Further properties of the descriptor closure.                           *)

\* C17: the closure a search builds for a root is the closure it builds for
\* that root supplied alone, whatever other roots come with it; a root that
\* gets no closure alone gets none in company.
C17_ClosureIndependentOfOtherRoots ==
    IsSearch =>
        \A root \in req.mesh_descriptor_ids :
            LET alone == ClosureMap({root}, req.do_include_children)
            IN  /\ root \in DOMAIN resp.map_descriptor_children
                      <=> root \in DOMAIN alone
                /\ root \in DOMAIN resp.map_descriptor_children =>
                      resp.map_descriptor_children[root] = alone[root]

\* Two roots were expanded together, each into a closure of its own with
\* more than the root in one of them.
C17_Witness ==
    /\ IsSearch
    /\ req.do_include_children
    /\ \E r1, r2 \in DOMAIN resp.map_descriptor_children :
          /\ r1 # r2
          /\ resp.map_descriptor_children[r1]
                # resp.map_descriptor_children[r2]
          /\ Cardinality(resp.map_descriptor_children[r1]) >= 2

\* One of the tree numbers of node descends from one of the tree numbers of
\* root.
Descends(node, root) ==
    \E tn \in tree_numbers[node], path \in tree_numbers[root] :
        SegmentPrefix(path, tn)

\* C18: a node is in the closure of every supplied root that one of its
\* tree numbers descends from, be it two different roots, and the list of
\* each closure holds each node id once.
C18_PolyhierarchyAndNoDuplicates ==
    (IsSearch /\ req.do_include_children) =>
        /\ \A root \in req.mesh_descriptor_ids, node \in Descriptors :
              Descends(node, root) =>
                  /\ root \in DOMAIN resp.map_descriptor_children
                  /\ node \in resp.map_descriptor_children[root]
        /\ DOMAIN resp.map_descriptor_lists
              = DOMAIN resp.map_descriptor_children
        /\ \A root \in DOMAIN resp.map_descriptor_lists :
              LET list == resp.map_descriptor_lists[root]
              IN  /\ { list[k] : k \in DOMAIN list }
                        = resp.map_descriptor_children[root]
                  /\ \A j, k \in DOMAIN list : list[j] = list[k] => j = k

\* A node with two tree numbers was attributed to the two roots it descends
\* from.
C18_Witness ==
    /\ IsSearch
    /\ req.do_include_children
    /\ \E r1, r2 \in DOMAIN resp.map_descriptor_children :
          \E node \in Descriptors \ {r1, r2} :
              /\ r1 # r2
              /\ Cardinality(tree_numbers[node]) = 2
              /\ Descends(node, r1)
              /\ Descends(node, r2)
              /\ node \in resp.map_descriptor_children[r1]
              /\ node \in resp.map_descriptor_children[r2]

-----------------------------------------------------------------------------
(* Properties of the authorisation check.                                  *)

ByAuth0Id == pc = "done" /\ op = "users.by_auth0_id"

\* C20: a caller whose token subject is that of user A, not the service
\* client, is rejected when it names the Auth0 id of another user B, with or
\* without the prefix.
C20_OtherUserRejected ==
    ByAuth0Id =>
        \A a, b \in UserIds :
            ( /\ a # b
              /\ req.sub = SubjectOf(a)
              /\ req.auth0_user_id \in { b, Auth0Prefix \o b } )
            => resp.raised = "GraphQLError: not authorized"

-----------------------------------------------------------------------------
(* count against filter.                                                   *)

\* C29: for the same filter arguments count is the length of the list filter
\* returns without ordering, offset and limit, both calls raise alike, and
\* the list holds each study once.
C29_CountIsLengthOfFilter ==
    /\ (pc = "done" /\ op = "studies.count") =>
          \A scan \in {"asc", "desc"} :
              LET filtered == ResolveFilter(req, scan)
              IN  /\ filtered.raised = resp.raised
                  /\ resp.count = Len(filtered.rows)
                  /\ \A j, k \in DOMAIN filtered.rows :
                        filtered.rows[j] = filtered.rows[k] => j = k
    /\ (/\ pc = "done"
        /\ op = "studies.filter"
        /\ req.order_by = None
        /\ req.offset = None
        /\ req.limit = None) =>
          /\ ResolveCount(req).raised = resp.raised
          /\ ResolveCount(req).count = Len(resp.rows)
          /\ \A j, k \in DOMAIN resp.rows :
                resp.rows[j] = resp.rows[k] => j = k

\* A count over a join in which a counted study has several joined rows.
C29_Witness ==
    /\ pc = "done"
    /\ op = "studies.count"
    /\ resp.raised = ""
    /\ resp.count >= 2
    /\ \E row1, row2 \in JoinedRows(req) :
          row1 # row2 /\ row1[1] = row2[1]

-----------------------------------------------------------------------------
(* The aggregations that project a related entity.                         *)

ProjectsEntity ==
    /\ pc = "done"
    /\ op \in {ByFacility, CitationsByAffiliation, CitationsByQualifier}

\* What the call requested of the projected entity.
EntityFields == IF op = ByFacility THEN req.facility_fields ELSE req.fields

\* C25: a call that leaves the entity's field out of the requested output,
\* or requests it with no column, raises nothing and returns its counts.
C25_EntityFieldMayBeOmitted ==
    (/\ ProjectsEntity
     /\ op = ByFacility => req.args.order_by = None
     /\ \/ EntityFields.kind = "absent"
        \/ EntityFields.kind = "dict" /\ EntityFields.keys = {}) =>
        resp.raised = ""

-----------------------------------------------------------------------------
(* Ordering in countStudiesByFacility.                                     *)

\* C26: with order_by supplied the entries come ordered by that facility
\* field, ascending unless order is DESC: the field is the primary sort key.
C26_OrderByIsPrimarySortKey ==
    (/\ pc = "done"
     /\ op = ByFacility
     /\ resp.raised = ""
     /\ req.args.order_by # None) =>
        \A j, k \in DOMAIN resp.rows :
            j < k =>
                FacilityOrderKey(resp.rows[j].facility_canonical,
                                 ToSnakeCase(req.args.order_by[1]),
                                 req.args.order = Some("DESC"))
                  <= FacilityOrderKey(resp.rows[k].facility_canonical,
                                      ToSnakeCase(req.args.order_by[1]),
                                      req.args.order = Some("DESC"))

-----------------------------------------------------------------------------
(* Properties of extract_requested_fields.                                 *)

\* The paths of all fields a list of AST nodes requests, the fields of the
\* fragments it spreads among them.
RECURSIVE RequestedPathsOf(_)
RequestedPathsOf(fields) ==
    UNION { IF fields[k].kind = "FragmentSpread"
            THEN RequestedPathsOf(Fragments[fields[k].name])
            ELSE { <<ToSnakeCasePlus(fields[k].name)>> }
                 \cup (IF fields[k].selection_set = None
                       THEN {}
                       ELSE { <<ToSnakeCasePlus(fields[k].name)>> \o p :
                                p \in RequestedPathsOf(
                                          fields[k].selection_set[1]) }) :
            k \in DOMAIN fields }

\* C24: the dictionary holds every field of the query at every level, the
\* fields of every fragment spread among the plain fields, and maps the
\* leaf fields to None.
C24_EveryRequestedFieldExtracted ==
    (pc = "done" /\ op = "utils.extract_requested_fields") =>
        /\ resp.paths = RequestedPathsOf(req.fields)
        /\ resp.empty = {}

-----------------------------------------------------------------------------
(* Properties of the Auth0 middleware.                                     *)

\* C27: a request that is neither a CORS preflight nor on an excluded path
\* either raises an HTTP 401 or leaves the token and its decoded payload in
\* the request context, the payload being that of a valid token; it raises
\* nothing else.
C27_Raises401OrStoresPayload ==
    (/\ pc = "done"
     /\ op = "auth0.process_request"
     /\ ~IsReqCors(req)
     /\ ~IsPathExcluded(req.path)) =>
        \/ resp.raised = "HTTP 401"
        \/ /\ resp.raised = ""
           /\ resp.context.token # None
           /\ resp.context.token_payload # None
           /\ Tokens[resp.context.token_payload[1]].decode = "valid"
           /\ Tokens[resp.context.token_payload[1]].kid # None
           /\ Tokens[resp.context.token_payload[1]].kid[1] \in JwksKids

-----------------------------------------------------------------------------
(* Properties of the mutations on users and searches.                      *)

IsUpsertSearch == pc = "done" /\ op = "mutations.upsert_search"

\* C21: an upsert_search of a search_uuid that exists leaves the stored
\* search with the title, gender, years and ages of the new input and
\* returns that record.
C21_UpsertUpdatesExistingSearch ==
    [][ (/\ SearchUpsert
         /\ resp'.raised = ""
         /\ db.searches[req'.search.search_uuid] # None) =>
            /\ db'.searches[req'.search.search_uuid] = Some(req'.search)
            /\ resp'.obj = Some(req'.search) ]_vars

\* The descriptor ids of the rows of search_descriptors of a search.
AttachedDescriptors(search_uuid) ==
    { db.search_descriptors[k][2] :
        k \in { j \in DOMAIN db.search_descriptors :
                  db.search_descriptors[j][1] = search_uuid } }

C23_UpsertUserReturnsStoredUser ==
    (pc = "done" /\ op = "mutations.upsert_user" /\ resp.raised = "") =>
        /\ resp.obj = Some(CleanAuth0UserId(req.auth0_user_id))
        /\ ResolveByAuth0Id(db.users, req.sub, req.auth0_user_id).obj
              = resp.obj
        /\ Cardinality({ u \in db.users :
                           CleanAuth0UserId(u)
                             = CleanAuth0UserId(req.auth0_user_id) }) = 1

\* The users a search is linked to.
UsersOfSearch(search_uuid) ==
    { row[1] : row \in { r \in db.user_searches : r[2] = search_uuid } }

\* C28: a delete_search, upsert_search or searches.by_search_uuid call made
\* for user B with the UUID of a search linked to user A only fails with an
\* error and leaves the tables as they were.
C28_SearchOfAnotherUserUntouched ==
    [][ (/\ SearchDelete \/ SearchUpsert \/ SearchByUuid
         /\ \E a, b \in AppUsers :
              LET search_uuid ==
                      IF op' = "mutations.upsert_search"
                      THEN req'.search.search_uuid
                      ELSE req'.search_uuid
              IN  /\ a # b
                  /\ req'.sub = SubjectOf(b)
                  /\ CleanAuth0UserId(req'.auth0_user_id) = b
                  /\ db.searches[search_uuid] # None
                  /\ UsersOfSearch(search_uuid) = {a}) =>
            /\ resp'.raised # ""
            /\ db' = db ]_vars

====
